---- MODULE Spec2Model ----
(***************************************************************************)
(* Geometric layout engine of the floor plan editor                        *)
(* (src/frontend/lib/editor/editorUtils.ts): grid snapping, bounding-box   *)
(* math, the adjacency graph and the spring-network solver.                *)
(*                                                                         *)
(* Numbers.  The code computes on IEEE doubles.  The model computes on a   *)
(* fixed-point lattice: a canvas coordinate c is the integer c * Scale.    *)
(* Scale = 4 * 5^8 makes the eight 0.6-relaxation steps of a direct        *)
(* connection (each a multiplication by 3/5) and the half-pixel midpoints  *)
(* exact; a product that falls between two lattice points is rounded to    *)
(* the nearest one (the doubles round too, at 2^-52).  Widths and heights  *)
(* are whole pixels in every bounded input.                                *)
(***************************************************************************)
EXTENDS Integers, Sequences, FiniteSets, TLC

Scale == 4 * 5 * 5 * 5 * 5 * 5 * 5 * 5 * 5

Px(n) == n * Scale

Max(a, b) == IF a >= b THEN a ELSE b

Min(a, b) == IF a <= b THEN a ELSE b

Abs(a) == IF a >= 0 THEN a ELSE -a

\* Math.round(a / b) for b > 0: the nearest integer, a half rounded up.
RoundDiv(a, b) == (2 * a + b) \div (2 * b)

\* d * (n / m) on the lattice, for small n and m, without overflow.
MulFrac(d, n, m) == (d \div m) * n + RoundDiv((d % m) * n, m)

(***************************************************************************)
(* Constants of editorTypes.ts                                             *)
(***************************************************************************)
MIN_ROOM_SIZE == 20

CANVAS_SIZE == 120

(***************************************************************************)
(* Grid snapping                                                           *)
(***************************************************************************)
\* gridSize is on the lattice (Px(grid.size)).
snapToGrid(value, gridSize) == RoundDiv(value, gridSize) * gridSize

snapBoundsToGrid(bounds, grid) ==
    IF ~grid.snapEnabled THEN bounds
    ELSE LET x == snapToGrid(bounds.x, Px(grid.size))
             y == snapToGrid(bounds.y, Px(grid.size))
             right == snapToGrid(bounds.x + bounds.width, Px(grid.size))
             bottom == snapToGrid(bounds.y + bounds.height, Px(grid.size))
         IN [x |-> x, y |-> y,
             width |-> Max(Px(MIN_ROOM_SIZE), right - x),
             height |-> Max(Px(MIN_ROOM_SIZE), bottom - y)]

(***************************************************************************)
(* Polygon math                                                            *)
(***************************************************************************)
boundsToPoints(bounds) ==
    << [x |-> bounds.x, y |-> bounds.y],
       [x |-> bounds.x + bounds.width, y |-> bounds.y],
       [x |-> bounds.x + bounds.width, y |-> bounds.y + bounds.height],
       [x |-> bounds.x, y |-> bounds.y + bounds.height] >>

(***************************************************************************)
(* Collision detection                                                     *)
(***************************************************************************)
boundsOverlap(a, b) ==
    ~(\/ a.x + a.width <= b.x
      \/ b.x + b.width <= a.x
      \/ a.y + a.height <= b.y
      \/ b.y + b.height <= a.y)

\* An adjacency test that only compares the gaps with the tolerance.
boundsAdjacentGapOnly(a, b, tolerance) ==
    \/ /\ ~(a.y + a.height <= b.y \/ b.y + b.height <= a.y)
       /\ (a.x - (b.x + b.width) <= tolerance
           \/ b.x - (a.x + a.width) <= tolerance)
    \/ /\ ~(a.x + a.width <= b.x \/ b.x + b.width <= a.x)
       /\ (a.y - (b.y + b.height) <= tolerance
           \/ b.y - (a.y + a.height) <= tolerance)

boundsAdjacent(a, b, tolerance) ==
    IF boundsOverlap(a, b) THEN FALSE
    ELSE LET gapLeft == a.x - (b.x + b.width)
             gapRight == b.x - (a.x + a.width)
             gapTop == a.y - (b.y + b.height)
             gapBottom == b.y - (a.y + a.height)
             horizontalOverlap ==
                 ~(a.y + a.height <= b.y \/ b.y + b.height <= a.y)
             horizontallyAdjacent ==
                 horizontalOverlap /\
                 (\/ (gapLeft >= 0 /\ gapLeft <= tolerance)
                  \/ (gapRight >= 0 /\ gapRight <= tolerance))
             verticalOverlap ==
                 ~(a.x + a.width <= b.x \/ b.x + b.width <= a.x)
             verticallyAdjacent ==
                 verticalOverlap /\
                 (\/ (gapTop >= 0 /\ gapTop <= tolerance)
                  \/ (gapBottom >= 0 /\ gapBottom <= tolerance))
         IN horizontallyAdjacent \/ verticallyAdjacent

\* Widths and heights are even on the lattice, so the halves are exact.
getBoundsCenter(bounds) ==
    [x |-> bounds.x + bounds.width \div 2,
     y |-> bounds.y + bounds.height \div 2]

(***************************************************************************)
(* Adjacency graph                                                         *)
(***************************************************************************)
\* findAdjacentRooms' default tolerance, in canvas units.
DefaultTolerance == 5

\* A connection's offset is kept as the fraction num / den (the double
\* (mid - edge) / length of the code), clamped to [0, 1].
ClampedOffset(num, den) == [num |-> Max(0, Min(den, num)), den |-> den]

\* A connection whose side is taken from the axis without looking at the sign
\* of the centre distance.
ConnectionToUnsigned(room, other) ==
    LET roomCenter == getBoundsCenter(room.bounds)
        otherCenter == getBoundsCenter(other.bounds)
        dx == otherCenter.x - roomCenter.x
        dy == otherCenter.y - roomCenter.y
    IN [roomId |-> other.id,
        side |-> IF Abs(dx) > Abs(dy) THEN "right" ELSE "bottom",
        offset |-> ClampedOffset(0, room.bounds.height)]

\* The body of findAdjacentRooms' loop for one adjacent room.
ConnectionTo(room, other) ==
    LET roomCenter == getBoundsCenter(room.bounds)
        otherCenter == getBoundsCenter(other.bounds)
        dx == otherCenter.x - roomCenter.x
        dy == otherCenter.y - roomCenter.y
    IN IF Abs(dx) > Abs(dy)
       THEN LET overlapTop == Max(room.bounds.y, other.bounds.y)
                overlapBottom == Min(room.bounds.y + room.bounds.height,
                                     other.bounds.y + other.bounds.height)
            IN [roomId |-> other.id,
                side |-> IF dx > 0 THEN "right" ELSE "left",
                offset |-> ClampedOffset(
                    (overlapTop + overlapBottom) \div 2 - room.bounds.y,
                    room.bounds.height)]
       ELSE LET overlapLeft == Max(room.bounds.x, other.bounds.x)
                overlapRight == Min(room.bounds.x + room.bounds.width,
                                    other.bounds.x + other.bounds.width)
            IN [roomId |-> other.id,
                side |-> IF dy > 0 THEN "bottom" ELSE "top",
                offset |-> ClampedOffset(
                    (overlapLeft + overlapRight) \div 2 - room.bounds.x,
                    room.bounds.width)]

findAdjacentRooms(room, allRooms, tolerance) ==
    LET adjacent == SelectSeq(allRooms, LAMBDA other:
                        /\ other.id # room.id
                        /\ boundsAdjacent(room.bounds, other.bounds, tolerance))
    IN [i \in 1..Len(adjacent) |-> ConnectionTo(room, adjacent[i])]

RoomIds(rs) == {rs[i].id : i \in 1..Len(rs)}

\* rooms.find(r => r.id === id): the first room with that id.
FindRoom(rs, id) ==
    rs[CHOOSE i \in 1..Len(rs) :
          rs[i].id = id /\ \A j \in 1..(i - 1) : rs[j].id # id]

buildConnectivityGraph(rs) ==
    [id \in RoomIds(rs) |->
        findAdjacentRooms(FindRoom(rs, id), rs, Px(DefaultTolerance))]

\* offset * length, with the offset a fraction of whole-pixel lengths.
OffsetTimes(offset, length) ==
    MulFrac(offset.num, length \div Scale, offset.den \div Scale)

calculateConnectedPosition(movedBounds, connectedRoom, connection) ==
    CASE connection.side = "right" ->
            [x |-> movedBounds.x + movedBounds.width,
             y |-> movedBounds.y
                   + OffsetTimes(connection.offset, movedBounds.height)
                   - connectedRoom.bounds.height \div 2]
      [] connection.side = "left" ->
            [x |-> movedBounds.x - connectedRoom.bounds.width,
             y |-> movedBounds.y
                   + OffsetTimes(connection.offset, movedBounds.height)
                   - connectedRoom.bounds.height \div 2]
      [] connection.side = "bottom" ->
            [x |-> movedBounds.x
                   + OffsetTimes(connection.offset, movedBounds.width)
                   - connectedRoom.bounds.width \div 2,
             y |-> movedBounds.y + movedBounds.height]
      [] connection.side = "top" ->
            [x |-> movedBounds.x
                   + OffsetTimes(connection.offset, movedBounds.width)
                   - connectedRoom.bounds.width \div 2,
             y |-> movedBounds.y - connectedRoom.bounds.height]

(***************************************************************************)
(* Dimension calculations                                                  *)
(***************************************************************************)
typicalHouseSqft == 2000

typicalWidthInches == 600

\* pixelArea is in whole square pixels; the square feet are the exact
\* fraction pixelArea * typicalHouseSqft / canvasArea.
pixelsToSqft(pixelArea) ==
    [num |-> pixelArea * typicalHouseSqft, den |-> CANVAS_SIZE * CANVAS_SIZE]

pixelsToInches(pixels) == MulFrac(pixels, typicalWidthInches, CANVAS_SIZE)

\* bounds.width * bounds.height, in whole square pixels.
PixelArea(bounds) == (bounds.width \div Scale) * (bounds.height \div Scale)

(***************************************************************************)
(* Doubles                                                                 *)
(*                                                                         *)
(* The unit conversions multiply by a quotient that is no lattice point,   *)
(* so their round trips are computed as the machine computes them: an IEEE *)
(* 754 binary64 number is [m, e] with value m * 2^e and m of exactly       *)
(* MantissaBits bits, least significant bit first.  Every operation        *)
(* rounds its exact result to the nearest such number, ties to even.       *)
(* The values of the model are far from the overflow and subnormal ranges. *)
(***************************************************************************)
MantissaBits == 53

\* Long multiplication and long division work on digits of LimbBits bits.
LimbBits == 13

LimbBase == 8192

\* Digits computed after the binary point of a quotient before rounding.
QuotientLimbs == 6

\* The sequence with the values f[1], ..., f[n].
AsSequence(f, n) == SubSeq(f, 1, n)

\* The LimbBits bits of a digit, least significant first.
LimbToBits(n) ==
    << n % 2, (n \div 2) % 2, (n \div 4) % 2, (n \div 8) % 2,
       (n \div 16) % 2, (n \div 32) % 2, (n \div 64) % 2, (n \div 128) % 2,
       (n \div 256) % 2, (n \div 512) % 2, (n \div 1024) % 2,
       (n \div 2048) % 2, (n \div 4096) % 2 >>

\* The j-th digit of a bit sequence (least significant bit first).
Limb(bits, j) ==
    LET bit(k) == IF (j - 1) * LimbBits + k <= Len(bits)
                  THEN bits[(j - 1) * LimbBits + k] ELSE 0
    IN bit(1) + 2 * bit(2) + 4 * bit(3) + 8 * bit(4) + 16 * bit(5)
       + 32 * bit(6) + 64 * bit(7) + 128 * bit(8) + 256 * bit(9)
       + 512 * bit(10) + 1024 * bit(11) + 2048 * bit(12) + 4096 * bit(13)

LimbsOf(bits) ==
    AsSequence([j \in 1..((Len(bits) + LimbBits - 1) \div LimbBits) |->
                   Limb(bits, j)],
               (Len(bits) + LimbBits - 1) \div LimbBits)

\* The bits of a sequence of digits.
BitsOf(limbs) ==
    AsSequence([k \in 1..(Len(limbs) * LimbBits) |->
                   LimbToBits(limbs[((k - 1) \div LimbBits) + 1])
                       [((k - 1) % LimbBits) + 1]],
               Len(limbs) * LimbBits)

\* The length of bits without its leading (most significant) zeros.
BitLength(bits) ==
    IF \A k \in 1..Len(bits) : bits[k] = 0 THEN 0
    ELSE CHOOSE n \in 1..Len(bits) :
            bits[n] = 1 /\ \A k \in (n + 1)..Len(bits) : bits[k] = 0

TrimBits(bits) == SubSeq(bits, 1, BitLength(bits))

Zeros(n) == AsSequence([k \in 1..n |-> 0], n)

\* The bits of a whole number below LimbBase^2.
NatToBits(n) == TrimBits(BitsOf(<< n % LimbBase, n \div LimbBase >>))

\* The sum of the digit products of column k of the long multiplication.
RECURSIVE ColumnFrom(_, _, _, _)
ColumnFrom(a, b, k, i) ==
    IF i > Len(a) THEN 0
    ELSE (IF (k + 1 - i) \in 1..Len(b) THEN a[i] * b[k + 1 - i] ELSE 0)
         + ColumnFrom(a, b, k, i + 1)

\* The digits of the sum of the columns from k on, plus carry.
RECURSIVE CarryColumns(_, _, _)
CarryColumns(cols, k, carry) ==
    IF k > Len(cols) THEN << carry >>
    ELSE << (cols[k] + carry) % LimbBase >>
         \o CarryColumns(cols, k + 1, (cols[k] + carry) \div LimbBase)

\* a * b on bit sequences, by long multiplication.
BitsMul(a, b) ==
    LET la == LimbsOf(a)
        lb == LimbsOf(b)
    IN BitsOf(CarryColumns(
           AsSequence([k \in 1..(Len(la) + Len(lb) - 1) |->
                          ColumnFrom(la, lb, k, 1)],
                      Len(la) + Len(lb) - 1), 1, 0))

\* bits + 1.
Increment(bits) ==
    IF \A k \in 1..Len(bits) : bits[k] = 1 THEN Zeros(Len(bits)) \o << 1 >>
    ELSE LET j == CHOOSE n \in 1..Len(bits) :
                     bits[n] = 0 /\ \A k \in 1..(n - 1) : bits[k] = 1
         IN AsSequence([k \in 1..Len(bits) |->
                           IF k < j THEN 0 ELSE IF k = j THEN 1 ELSE bits[k]],
                       Len(bits))

\* bits - 1, for bits # 0.
Decrement(bits) ==
    LET j == CHOOSE n \in 1..Len(bits) :
                bits[n] = 1 /\ \A k \in 1..(n - 1) : bits[k] = 0
    IN AsSequence([k \in 1..Len(bits) |->
                      IF k < j THEN 1 ELSE IF k = j THEN 0 ELSE bits[k]],
                  Len(bits))

\* The double nearest to bits * 2^e (bits # 0, no leading zeros), ties to
\* even; sticky says that the exact value lies above bits * 2^e.
RoundToDouble(bits, e, sticky) ==
    IF Len(bits) <= MantissaBits
    THEN [m |-> Zeros(MantissaBits - Len(bits)) \o bits,
          e |-> e - (MantissaBits - Len(bits))]
    ELSE LET drop == Len(bits) - MantissaBits
             kept == SubSeq(bits, drop + 1, Len(bits))
             guard == bits[drop]
             below == sticky \/ \E k \in 1..(drop - 1) : bits[k] = 1
             up == guard = 1 /\ (below \/ kept[1] = 1)
             rounded == IF up THEN Increment(kept) ELSE kept
         IN IF Len(rounded) > MantissaBits
            THEN [m |-> Tail(rounded), e |-> e + drop + 1]
            ELSE [m |-> rounded, e |-> e + drop]

\* The double of a positive whole number below LimbBase^2.
DoubleOfNat(n) == RoundToDouble(NatToBits(n), 0, FALSE)

\* The double of n / 2^k, for a positive whole number n below LimbBase^2.
DoubleOfBinary(n, k) == RoundToDouble(NatToBits(n), -k, FALSE)

\* count digits of the fraction r / d (r < d), the most significant last in
\* the result, and the remainder left over.
RECURSIVE FractionLimbs(_, _, _)
FractionLimbs(r, d, count) ==
    IF count = 0 THEN [limbs |-> << >>, r |-> r]
    ELSE LET rest == FractionLimbs((r * LimbBase) % d, d, count - 1)
         IN [limbs |-> rest.limbs \o << (r * LimbBase) \div d >>, r |-> rest.r]

\* n / d for positive whole numbers n and d below 2 * LimbBase, as the
\* division of the two doubles that hold them.
DoubleDiv(n, d) ==
    LET frac == FractionLimbs(n % d, d, QuotientLimbs)
    IN RoundToDouble(TrimBits(BitsOf(frac.limbs \o << n \div d >>)),
                     -(QuotientLimbs * LimbBits), frac.r # 0)

\* a * b for doubles.
DoubleMul(a, b) == RoundToDouble(TrimBits(BitsMul(a.m, b.m)), a.e + b.e, FALSE)

\* The next double above a.
NextUp(a) ==
    IF \A k \in 1..MantissaBits : a.m[k] = 1
    THEN [m |-> Zeros(MantissaBits - 1) \o << 1 >>, e |-> a.e + 1]
    ELSE [m |-> Increment(a.m), e |-> a.e]

\* The next double below a.
NextDown(a) ==
    IF \A k \in 1..(MantissaBits - 1) : a.m[k] = 0
    THEN [m |-> AsSequence([k \in 1..MantissaBits |-> 1], MantissaBits),
          e |-> a.e - 1]
    ELSE [m |-> Decrement(a.m), e |-> a.e]

\* A conversion to pixels that uses the factor of the conversion to sqft.
sqftToPixelsSameFactor(sqft) ==
    DoubleMul(sqft, DoubleDiv(typicalHouseSqft, CANVAS_SIZE * CANVAS_SIZE))

\* sqftToPixels(sqft), on doubles, with the default canvasSize.
sqftToPixels(sqft) ==
    DoubleMul(sqft, DoubleDiv(CANVAS_SIZE * CANVAS_SIZE, typicalHouseSqft))

\* pixelsToSqft(pixelArea), on doubles, with the default canvasSize.
pixelsToSqftDouble(pixelArea) ==
    DoubleMul(pixelArea, DoubleDiv(typicalHouseSqft, CANVAS_SIZE * CANVAS_SIZE))

(***************************************************************************)
(* applySpringNetwork(movedRoomId, newBounds, rooms, grid, iterations)     *)
(*                                                                         *)
(* One call, stepped through its phases.  rooms, movedRoomId, newBounds,   *)
(* grid and iterations are the arguments as passed.  newBoundsObj is the   *)
(* content of the caller's newBounds object: the call stores that very     *)
(* object in its workingBounds map (line 381), so workingBounds[movedRoomId]*)
(* and newBoundsObj are one object until the map entry is replaced.        *)
(***************************************************************************)
VARIABLES rooms, movedRoomId, newBounds, grid, iterations,
          newBoundsObj, originalGraph, workingBounds,
          iter, hasOverlap, safetyCounter, pc, result

\* A call of findNonOverlappingPosition(room, desiredBounds, allRooms, grid,
\* maxIterations): allRooms and grid are the variables rooms and grid,
\* findRoomId is room.id, findBounds the local currentBounds and findI the
\* loop counter i.
VARIABLES findRoomId, desiredBounds, maxIterations, findBounds, findI

finderVars == << findRoomId, desiredBounds, maxIterations, findBounds, findI >>

\* Serializing and parsing: svgRooms is the room list given to a serializer,
\* serializer the function that wrote the document ("none" for a document
\* from elsewhere), svgElements the document, elementIndex the number of
\* shapes parseSvgRooms has visited and parsedRooms its local rooms.
VARIABLES svgRooms, serializer, svgElements, elementIndex, parsedRooms

parserVars == << svgRooms, serializer, svgElements, elementIndex, parsedRooms >>

\* A call of one of the helper functions on its own: helperCall names the
\* function ("none" when none is called), helperArg is its argument and
\* helperResults the values returned so far.
VARIABLES helperCall, helperArg, helperResults

helperVars == << helperCall, helperArg, helperResults >>

\* The state of the calls other than applySpringNetwork.
otherCalls == << finderVars, parserVars, helperVars >>

vars == << rooms, movedRoomId, newBounds, grid, iterations,
           newBoundsObj, originalGraph, workingBounds,
           iter, hasOverlap, safetyCounter, pc, result, otherCalls >>

args == << rooms, movedRoomId, newBounds, grid, iterations >>

DefaultIterations == 8

SecondaryIterations == 3

MaxCleanupPasses == 10

\* The rooms with the bounds the working map wb gives them.
RoomsAt(wb) == [i \in 1..Len(rooms) |-> [rooms[i] EXCEPT !.bounds = wb[rooms[i].id]]]

\* The moved room's connections recomputed from the working positions.
directConnectionsNow ==
    buildConnectivityGraph(RoomsAt(workingBounds))[movedRoomId]

\* Rooms directly connected to the moved room, in the pre-move graph.
directConnections == originalGraph[movedRoomId]

\* A spring ten times weaker than the code's (0.06 and 0.03).
SpringTowardsWeak(currentBounds, idealPos, n, m) ==
    [currentBounds EXCEPT
        !.x = currentBounds.x + MulFrac(idealPos.x - currentBounds.x, n, 10 * m),
        !.y = currentBounds.y + MulFrac(idealPos.y - currentBounds.y, n, 10 * m)]

\* current + (ideal - current) * (n / m): 0.6 is 3/5 and 0.3 is 3/10.
SpringTowards(currentBounds, idealPos, n, m) ==
    [currentBounds EXCEPT
        !.x = currentBounds.x + MulFrac(idealPos.x - currentBounds.x, n, m),
        !.y = currentBounds.y + MulFrac(idealPos.y - currentBounds.y, n, m)]

\* First pass: the direct connections from the k-th on, in order.
RECURSIVE AttractFrom(_, _)
AttractFrom(wb, k) ==
    IF k > Len(directConnections) THEN wb
    ELSE LET connection == directConnections[k]
             connectedRoom == FindRoom(rooms, connection.roomId)
         IN IF connectedRoom.isLocked THEN AttractFrom(wb, k + 1)
            ELSE LET idealPos == calculateConnectedPosition(
                                     wb[movedRoomId], connectedRoom, connection)
                 IN AttractFrom(
                        [wb EXCEPT ![connection.roomId] =
                            SpringTowards(wb[connection.roomId], idealPos, 3, 5)],
                        k + 1)

AttractionPass(wb) == AttractFrom(wb, 1)

\* min of the two penetration depths on one axis.
OverlapX(bounds, otherBounds) ==
    Min(bounds.x + bounds.width - otherBounds.x,
        otherBounds.x + otherBounds.width - bounds.x)

OverlapY(bounds, otherBounds) ==
    Min(bounds.y + bounds.height - otherBounds.y,
        otherBounds.y + otherBounds.height - bounds.y)

\* The sign of d: 1, -1, or 0 for 0.
Sign(d) == IF d > 0 THEN 1 ELSE IF d < 0 THEN -1 ELSE 0

\* A push along the normalized direction between the centres, which is
\* nothing when the centres agree on the axis.
RepulsionPushBySign(bounds, otherBounds) ==
    LET centerA == getBoundsCenter(bounds)
        centerB == getBoundsCenter(otherBounds)
        overlapX == OverlapX(bounds, otherBounds)
        overlapY == OverlapY(bounds, otherBounds)
    IN IF overlapX < overlapY
       THEN [x |-> Sign(centerA.x - centerB.x) * (overlapX + Px(2)), y |-> 0]
       ELSE [x |-> 0, y |-> Sign(centerA.y - centerB.y) * (overlapY + Px(2))]

\* The push of one overlapping room on bounds, as (adjustX, adjustY).
RepulsionPush(bounds, otherBounds) ==
    LET centerA == getBoundsCenter(bounds)
        centerB == getBoundsCenter(otherBounds)
        dx == centerA.x - centerB.x
        dy == centerA.y - centerB.y
        overlapX == OverlapX(bounds, otherBounds)
        overlapY == OverlapY(bounds, otherBounds)
    IN IF overlapX < overlapY
       THEN [x |-> (IF dx > 0 THEN 1 ELSE -1) * (overlapX + Px(2)), y |-> 0]
       ELSE [x |-> 0, y |-> (IF dy > 0 THEN 1 ELSE -1) * (overlapY + Px(2))]

\* The inner loop of the second pass: the pushes of the rooms from the j-th on.
RECURSIVE RepulsionAdjust(_, _, _, _)
RepulsionAdjust(wb, room, bounds, j) ==
    IF j > Len(rooms) THEN [x |-> 0, y |-> 0]
    ELSE LET other == rooms[j]
             rest == RepulsionAdjust(wb, room, bounds, j + 1)
         IN IF other.id # room.id /\ boundsOverlap(bounds, wb[other.id])
            THEN LET push == RepulsionPush(bounds, wb[other.id])
                 IN [x |-> push.x + rest.x, y |-> push.y + rest.y]
            ELSE rest

\* Second pass: the rooms from the k-th on, each against the current map.
RECURSIVE RepelFrom(_, _)
RepelFrom(wb, k) ==
    IF k > Len(rooms) THEN wb
    ELSE LET room == rooms[k]
         IN IF room.id = movedRoomId \/ room.isLocked THEN RepelFrom(wb, k + 1)
            ELSE LET bounds == wb[room.id]
                     adjust == RepulsionAdjust(wb, room, bounds, 1)
                 IN IF adjust.x # 0 \/ adjust.y # 0
                    THEN RepelFrom(
                             [wb EXCEPT ![room.id] =
                                 [bounds EXCEPT !.x = bounds.x + adjust.x,
                                                !.y = bounds.y + adjust.y]],
                             k + 1)
                    ELSE RepelFrom(wb, k + 1)

RepulsionPass(wb) == RepelFrom(wb, 1)

\* Third pass, inner loop: the connections of one directly connected room,
\* from the j-th on.
RECURSIVE SecondaryOf(_, _, _)
SecondaryOf(wb, connection, j) ==
    LET secondaryConnections == originalGraph[connection.roomId]
    IN IF j > Len(secondaryConnections) THEN wb
       ELSE LET secondary == secondaryConnections[j]
                secondaryRoom == FindRoom(rooms, secondary.roomId)
            IN IF secondary.roomId = movedRoomId \/ secondaryRoom.isLocked
               THEN SecondaryOf(wb, connection, j + 1)
               ELSE LET idealPos == calculateConnectedPosition(
                                        wb[connection.roomId], secondaryRoom,
                                        secondary)
                    IN SecondaryOf(
                           [wb EXCEPT ![secondary.roomId] =
                               SpringTowards(wb[secondary.roomId], idealPos, 3, 10)],
                           connection, j + 1)

RECURSIVE SecondaryFrom(_, _)
SecondaryFrom(wb, k) ==
    IF k > Len(directConnections) THEN wb
    ELSE SecondaryFrom(SecondaryOf(wb, directConnections[k], 1), k + 1)

SecondaryPass(wb) == SecondaryFrom(wb, 1)

\* Keep within canvas: the two assignments to snapped.x and snapped.y.
ClampToCanvas(snapped) ==
    [snapped EXCEPT
        !.x = Max(0, Min(Px(CANVAS_SIZE) - snapped.width, snapped.x)),
        !.y = Max(0, Min(Px(CANVAS_SIZE) - snapped.height, snapped.y))]

\* Final overlap resolution: the box that replaces bounds after one overlap.
CleanupPush(bounds, otherBounds) ==
    LET centerA == getBoundsCenter(bounds)
        centerB == getBoundsCenter(otherBounds)
        overlapX == OverlapX(bounds, otherBounds)
        overlapY == OverlapY(bounds, otherBounds)
        pushed ==
            IF overlapX < overlapY
            THEN [bounds EXCEPT !.x = bounds.x
                     + (IF centerA.x > centerB.x THEN 1 ELSE -1)
                       * (overlapX + Px(grid.size))]
            ELSE [bounds EXCEPT !.y = bounds.y
                     + (IF centerA.y > centerB.y THEN 1 ELSE -1)
                       * (overlapY + Px(grid.size))]
    IN ClampToCanvas(snapBoundsToGrid(pushed, grid))

\* A cleanup pass that, like the passes' outer loops, leaves the moved room
\* out of the inner loop too.
RECURSIVE CleanupAgainstSkipMoved(_, _, _, _)
CleanupAgainstSkipMoved(st, room, bounds, j) ==
    IF j > Len(rooms) THEN st
    ELSE LET other == rooms[j]
         IN IF /\ other.id # room.id
               /\ other.id # movedRoomId
               /\ boundsOverlap(bounds, st.wb[other.id])
            THEN CleanupAgainstSkipMoved(
                     [wb |-> [st.wb EXCEPT ![room.id] =
                                 CleanupPush(bounds, st.wb[other.id])],
                      hasOverlap |-> TRUE],
                     room, bounds, j + 1)
            ELSE CleanupAgainstSkipMoved(st, room, bounds, j + 1)

\* The inner loop of a cleanup pass for one room: bounds was read before the
\* loop and every push starts from it.  st = [wb, hasOverlap].
RECURSIVE CleanupAgainst(_, _, _, _)
CleanupAgainst(st, room, bounds, j) ==
    IF j > Len(rooms) THEN st
    ELSE LET other == rooms[j]
         IN IF other.id # room.id /\ boundsOverlap(bounds, st.wb[other.id])
            THEN CleanupAgainst(
                     [wb |-> [st.wb EXCEPT ![room.id] =
                                 CleanupPush(bounds, st.wb[other.id])],
                      hasOverlap |-> TRUE],
                     room, bounds, j + 1)
            ELSE CleanupAgainst(st, room, bounds, j + 1)

RECURSIVE CleanupFrom(_, _)
CleanupFrom(st, k) ==
    IF k > Len(rooms) THEN st
    ELSE LET room == rooms[k]
         IN IF room.id = movedRoomId \/ room.isLocked THEN CleanupFrom(st, k + 1)
            ELSE CleanupFrom(CleanupAgainst(st, room, st.wb[room.id], 1), k + 1)

\* A loop body that pushes like the code's and never sets hasOverlap.
CleanupLoopBodyNoFlag(wb) ==
    [wb |-> CleanupFrom([wb |-> wb, hasOverlap |-> FALSE], 1).wb,
     hasOverlap |-> FALSE]

\* One iteration of the while loop's body.
CleanupLoopBody(wb) == CleanupFrom([wb |-> wb, hasOverlap |-> FALSE], 1)

SameBounds(a, b) ==
    a.x = b.x /\ a.y = b.y /\ a.width = b.width /\ a.height = b.height

\* A map that stores the new bounds and recomputes nothing.
ApplyUpdatesBoundsOnly(wb) ==
    [i \in 1..Len(rooms) |->
        IF SameBounds(wb[rooms[i].id], rooms[i].bounds)
        THEN [ref |-> "input", room |-> rooms[i]]
        ELSE [ref |-> "new",
              room |-> [rooms[i] EXCEPT !.bounds = wb[rooms[i].id]]]]

\* A map that rebuilds every room, changed or not.
ApplyUpdatesAlwaysNew(wb) ==
    [i \in 1..Len(rooms) |->
        [ref |-> "new",
         room |-> [rooms[i] EXCEPT
             !.bounds = wb[rooms[i].id],
             !.points = boundsToPoints(wb[rooms[i].id]),
             !.widthInches = pixelsToInches(wb[rooms[i].id].width),
             !.heightInches = pixelsToInches(wb[rooms[i].id].height),
             !.areaSqft = pixelsToSqft(PixelArea(wb[rooms[i].id]))]]]

\* rooms.map(...): ref tells whether the returned element is the input room
\* object itself ("input") or a newly built object ("new").
ApplyUpdates(wb) ==
    [i \in 1..Len(rooms) |->
        LET room == rooms[i]
            newRoomBounds == wb[room.id]
        IN IF SameBounds(newRoomBounds, room.bounds)
           THEN [ref |-> "input", room |-> room]
           ELSE [ref |-> "new",
                 room |-> [room EXCEPT
                     !.bounds = newRoomBounds,
                     !.points = boundsToPoints(newRoomBounds),
                     !.widthInches = pixelsToInches(newRoomBounds.width),
                     !.heightInches = pixelsToInches(newRoomBounds.height),
                     !.areaSqft = pixelsToSqft(PixelArea(newRoomBounds))]]]

(***************************************************************************)
(* The bounded arguments                                                   *)
(***************************************************************************)
Box(x, y, w, h) == [x |-> Px(x), y |-> Px(y), width |-> Px(w), height |-> Px(h)]

\* A rectangular room whose derived fields agree with its bounds.
Room(id, bounds, isLocked) ==
    [id |-> id, bounds |-> bounds, points |-> boundsToPoints(bounds),
     isLocked |-> isLocked,
     widthInches |-> pixelsToInches(bounds.width),
     heightInches |-> pixelsToInches(bounds.height),
     areaSqft |-> pixelsToSqft(PixelArea(bounds))]

\* The moved room, and the lattice the other rooms are placed on.
MovedBox == Box(0, 0, 40, 40)

MaxCol == 2

MaxRow == 2

OtherBoxes ==
    { b \in { Box(40 * c, 20 * r, 40, h) :
                 c \in 0..MaxCol, r \in 0..MaxRow, h \in {20, 40} } :
        ~boundsOverlap(MovedBox, b) }

\* Two or three rooms, pairwise disjoint; the moved room comes first.
Layouts ==
    { << MovedBox, b >> : b \in OtherBoxes }
    \cup { << MovedBox, bc[1], bc[2] >> :
              bc \in { p \in OtherBoxes \X OtherBoxes :
                          ~boundsOverlap(p[1], p[2]) } }

\* At most one room is locked, and not the one being dragged.
LockedSets(n) == { {} } \cup { {i} : i \in 2..n }

GridConfigs ==
    { [size |-> 10, snapEnabled |-> TRUE],
      [size |-> 16, snapEnabled |-> TRUE],
      [size |-> 10, snapEnabled |-> FALSE] }

\* Drags of the moved room (also onto other rooms and past the canvas edge)
\* and resizes (below MIN_ROOM_SIZE, beyond the canvas).
NewBoundsOf(b) ==
    { [b EXCEPT !.x = b.x + Px(d[1]), !.y = b.y + Px(d[2])] :
        d \in { <<0, 0>>, <<0, 40>>, <<0, 20>>, <<50, 0>>, <<-20, 0>> } }
    \cup { [b EXCEPT !.width = Px(w)] : w \in {10, 140} }

IterationCounts == { 1, DefaultIterations }

(***************************************************************************)
(* The call                                                                *)
(***************************************************************************)
\* findNonOverlappingPosition is not running.
NoFind ==
    /\ findRoomId = 0
    /\ desiredBounds = Box(0, 0, 0, 0)
    /\ maxIterations = 0
    /\ findBounds = Box(0, 0, 0, 0)
    /\ findI = 0

\* No document is being written or parsed.
NoParse ==
    /\ svgRooms = << >>
    /\ serializer = "none"
    /\ svgElements = << >>
    /\ elementIndex = 0
    /\ parsedRooms = << >>

\* No helper function is called on its own.
NoHelper ==
    /\ helperCall = "none"
    /\ helperArg = << >>
    /\ helperResults = << >>

\* No other function of the engine is running.
NoOtherCall == NoFind /\ NoParse /\ NoHelper

Init ==
    /\ \E layout \in Layouts :
       \E locked \in LockedSets(Len(layout)) :
          rooms = [i \in 1..Len(layout) |-> Room(i, layout[i], i \in locked)]
    /\ movedRoomId = 1
    /\ newBounds \in NewBoundsOf(FindRoom(rooms, movedRoomId).bounds)
    /\ grid \in GridConfigs
    /\ iterations \in IterationCounts
    /\ newBoundsObj = newBounds
    /\ originalGraph = << >>
    /\ workingBounds = << >>
    /\ iter = 0
    /\ hasOverlap = FALSE
    /\ safetyCounter = 0
    /\ pc = "call"
    /\ result = << >>
    /\ NoOtherCall

\* A call that forgets to store newBounds for the moved room.
BeginWithoutMove ==
    /\ pc = "call"
    /\ originalGraph' = buildConnectivityGraph(rooms)
    /\ workingBounds' = [id \in RoomIds(rooms) |-> FindRoom(rooms, id).bounds]
    /\ iter' = 0
    /\ pc' = IF 0 < iterations THEN "attract" ELSE "snap"
    /\ UNCHANGED << args, otherCalls, newBoundsObj, hasOverlap, safetyCounter, result >>

\* Lines 373-384: the graph of the rooms as passed, the working copy of their
\* bounds, and the caller's newBounds object stored for the moved room.
Begin ==
    /\ pc = "call"
    /\ originalGraph' = buildConnectivityGraph(rooms)
    /\ workingBounds' =
          [id \in RoomIds(rooms) \cup {movedRoomId} |->
              IF id = movedRoomId THEN newBoundsObj
              ELSE FindRoom(rooms, id).bounds]
    /\ iter' = 0
    /\ pc' = IF 0 < iterations THEN "attract" ELSE "snap"
    /\ UNCHANGED << args, otherCalls, newBoundsObj, hasOverlap, safetyCounter, result >>

Attract ==
    /\ pc = "attract"
    /\ workingBounds' = AttractionPass(workingBounds)
    /\ pc' = "repel"
    /\ UNCHANGED << args, otherCalls, newBoundsObj, originalGraph, iter, hasOverlap,
                    safetyCounter, result >>

\* The second pass, the third (first SecondaryIterations iterations only)
\* being skipped from the fourth iteration on, and the loop's iter++.
Repel ==
    /\ pc = "repel"
    /\ workingBounds' = RepulsionPass(workingBounds)
    /\ IF iter < SecondaryIterations
       THEN pc' = "secondary" /\ iter' = iter
       ELSE /\ iter' = iter + 1
            /\ pc' = IF iter + 1 < iterations THEN "attract" ELSE "snap"
    /\ UNCHANGED << args, otherCalls, newBoundsObj, originalGraph, hasOverlap,
                    safetyCounter, result >>

Secondary ==
    /\ pc = "secondary"
    /\ workingBounds' = SecondaryPass(workingBounds)
    /\ iter' = iter + 1
    /\ pc' = IF iter + 1 < iterations THEN "attract" ELSE "snap"
    /\ UNCHANGED << args, otherCalls, newBoundsObj, originalGraph, hasOverlap,
                    safetyCounter, result >>

\* Lines 496-505.  With snapping off snapBoundsToGrid returns its argument,
\* so the two clamping assignments write into the object held by the map:
\* for the moved room that is the caller's newBounds object.
SnapAndClamp ==
    /\ pc = "snap"
    /\ workingBounds' =
          [id \in DOMAIN workingBounds |->
              ClampToCanvas(snapBoundsToGrid(workingBounds[id], grid))]
    /\ newBoundsObj' = IF grid.snapEnabled THEN newBoundsObj
                       ELSE ClampToCanvas(newBoundsObj)
    /\ hasOverlap' = TRUE
    /\ safetyCounter' = 0
    /\ pc' = "cleanup"
    /\ UNCHANGED << args, otherCalls, originalGraph, iter, result >>

\* A while loop without the safety counter in its condition.
CleanupPassNoCap ==
    /\ pc = "cleanup"
    /\ hasOverlap
    /\ LET st == CleanupLoopBody(workingBounds)
       IN /\ workingBounds' = st.wb
          /\ hasOverlap' = st.hasOverlap
    /\ safetyCounter' = safetyCounter + 1
    /\ UNCHANGED << args, otherCalls, newBoundsObj, originalGraph, iter, pc, result >>

CleanupPass ==
    /\ pc = "cleanup"
    /\ hasOverlap /\ safetyCounter < MaxCleanupPasses
    /\ LET st == CleanupLoopBody(workingBounds)
       IN /\ workingBounds' = st.wb
          /\ hasOverlap' = st.hasOverlap
    /\ safetyCounter' = safetyCounter + 1
    /\ UNCHANGED << args, otherCalls, newBoundsObj, originalGraph, iter, pc, result >>

Return ==
    /\ pc = "cleanup"
    /\ ~(hasOverlap /\ safetyCounter < MaxCleanupPasses)
    /\ result' = ApplyUpdates(workingBounds)
    /\ pc' = "done"
    /\ UNCHANGED << args, otherCalls, newBoundsObj, originalGraph, workingBounds, iter,
                    hasOverlap, safetyCounter >>

Next ==
    \/ Begin
    \/ Attract
    \/ Repel
    \/ Secondary
    \/ SnapAndClamp
    \/ CleanupPass
    \/ Return

Spec == Init /\ [][Next]_vars

\* The calls on a layout of two rooms.
TwoRoomInit == Init /\ Len(rooms) = 2

\* The call is synchronous: once started it runs to its return.
FairSpec == TwoRoomInit /\ [][Next]_vars /\ WF_vars(Next)

(***************************************************************************)
(* findNonOverlappingPosition                                              *)
(***************************************************************************)
DefaultMaxIterations == 20

\* A scan that stops at the first room of allRooms, overlapping or not.
FirstOverlappingOnlyFirst(cb) ==
    IF rooms[1].id # findRoomId /\ boundsOverlap(cb, rooms[1].bounds)
    THEN 1 ELSE 0

\* The first room of allRooms, other than the room itself, that cb overlaps;
\* 0 when there is none.
FirstOverlapping(cb) ==
    LET hits == { k \in 1..Len(rooms) :
                    /\ rooms[k].id # findRoomId
                    /\ boundsOverlap(cb, rooms[k].bounds) }
    IN IF hits = {} THEN 0
       ELSE CHOOSE k \in hits : \A l \in hits : k <= l

\* Lines 608-629: push cb away from the box it overlaps, along the axis of
\* least overlap, by the overlap plus 2, then snap and clamp.
NudgeAway(cb, otherBounds) ==
    LET centerA == getBoundsCenter(cb)
        centerB == getBoundsCenter(otherBounds)
        overlapX == OverlapX(cb, otherBounds)
        overlapY == OverlapY(cb, otherBounds)
        pushed ==
            IF overlapX < overlapY
            THEN [cb EXCEPT !.x = cb.x + (IF centerA.x > centerB.x THEN 1 ELSE -1)
                                           * (overlapX + Px(2))]
            ELSE [cb EXCEPT !.y = cb.y + (IF centerA.y > centerB.y THEN 1 ELSE -1)
                                           * (overlapY + Px(2))]
    IN ClampToCanvas(snapBoundsToGrid(pushed, grid))

\* Where a new room is dropped: on and off the grid, at the canvas edge, in
\* two sizes.
DropPlaces == { 0, 30, 90 }

DesiredBoxes ==
    { Box(x, y, s, s) : x \in DropPlaces, y \in DropPlaces, s \in {20, 40} }

MaxIterationCounts == { 1, DefaultMaxIterations }

\* The call and line 597: the room is a new one (id 0) or the first room of
\* allRooms; currentBounds starts as a copy of desiredBounds.
FindInit ==
    /\ \E layout \in Layouts :
          rooms = [k \in 1..Len(layout) |-> Room(k, layout[k], FALSE)]
    /\ grid \in GridConfigs
    /\ findRoomId \in {0, 1}
    /\ desiredBounds \in DesiredBoxes
    /\ maxIterations \in MaxIterationCounts
    /\ findBounds = desiredBounds
    /\ findI = 0
    /\ NoParse
    /\ NoHelper
    /\ pc = "find"
    /\ movedRoomId = 1
    /\ newBounds = MovedBox
    /\ iterations = 0
    /\ newBoundsObj = newBounds
    /\ originalGraph = << >>
    /\ workingBounds = << >>
    /\ iter = 0
    /\ hasOverlap = FALSE
    /\ safetyCounter = 0
    /\ result = << >>

\* The arguments and locals of applySpringNetwork, and its result.
springCall == << args, newBoundsObj, originalGraph, workingBounds, iter,
                 hasOverlap, safetyCounter, result >>

\* An iteration that finds an overlap: nudge, snap, clamp, i++.
FindNudge ==
    /\ pc = "find"
    /\ findI < maxIterations
    /\ \E k \in 1..Len(rooms) :
          /\ k = FirstOverlapping(findBounds)
          /\ findBounds' = NudgeAway(findBounds, rooms[k].bounds)
    /\ findI' = findI + 1
    /\ UNCHANGED << springCall, parserVars, helperVars, pc, findRoomId, desiredBounds,
                    maxIterations >>

\* An iteration that finds no overlap: break and return currentBounds.
FindClear ==
    /\ pc = "find"
    /\ findI < maxIterations
    /\ FirstOverlapping(findBounds) = 0
    /\ pc' = "found"
    /\ UNCHANGED << springCall, otherCalls >>

\* The loop ran maxIterations times: return currentBounds as it is.
FindCapHit ==
    /\ pc = "find"
    /\ findI >= maxIterations
    /\ pc' = "found"
    /\ UNCHANGED << springCall, otherCalls >>

FindNext ==
    \/ FindNudge
    \/ FindClear
    \/ FindCapHit

FindSpec == FindInit /\ [][FindNext]_vars

\* The calls with two rooms in allRooms.
TwoRoomFindInit == FindInit /\ Len(rooms) = 2

\* The call is synchronous: once started it runs to its return.
FairFindSpec == TwoRoomFindInit /\ [][FindNext]_vars /\ WF_vars(FindNext)

(***************************************************************************)
(* Properties of applySpringNetwork                                        *)
(***************************************************************************)
Done == pc = "done"

MovedIndex == CHOOSE i \in 1..Len(rooms) : rooms[i].id = movedRoomId

ReturnedBounds(i) == result[i].room.bounds

InsideCanvas(b) ==
    /\ 0 <= b.x
    /\ 0 <= b.y
    /\ b.x + b.width <= Px(CANVAS_SIZE)
    /\ b.y + b.height <= Px(CANVAS_SIZE)

NoUnlockedOverlap ==
    \A i, j \in 1..Len(result) :
        (i < j /\ ~rooms[i].isLocked /\ ~rooms[j].isLocked)
            => ~boundsOverlap(ReturnedBounds(i), ReturnedBounds(j))

\* C1 (as stated): after any call, no two unlocked rooms of the returned list
\* overlap.
C1_NoUnlockedOverlap == Done => NoUnlockedOverlap

\* C1 (amended): no two unlocked rooms of the returned list overlap, unless
\* the cleanup loop stopped at its cap with its last pass still finding an
\* overlap.
C1_NoUnlockedOverlapUnlessCapHit ==
    (Done /\ ~(safetyCounter = MaxCleanupPasses /\ hasOverlap))
        => NoUnlockedOverlap

\* The cleanup loop separated two unlocked rooms and then found nothing left.
C1_Witness ==
    /\ Done
    /\ safetyCounter > 1
    /\ ~hasOverlap
    /\ \E i, j \in 1..Len(rooms) :
          i < j /\ ~rooms[i].isLocked /\ ~rooms[j].isLocked

\* C2: every locked room is returned with the bounds and the points it came
\* in with.
C2_LockedRoomsNeverMove ==
    Done => \A i \in 1..Len(rooms) :
                rooms[i].isLocked =>
                    /\ ReturnedBounds(i) = rooms[i].bounds
                    /\ result[i].room.points = rooms[i].points

C4_RoomsInsideCanvas ==
    Done => \A i \in 1..Len(result) : InsideCanvas(ReturnedBounds(i))

OnGrid(v) == v % Px(grid.size) = 0

\* C5: with snapping on, all four sides of every returned room are multiples
\* of grid.size.
C5_RoomsGridSnapped ==
    (Done /\ grid.snapEnabled) =>
        \A i \in 1..Len(result) :
            /\ OnGrid(ReturnedBounds(i).x)
            /\ OnGrid(ReturnedBounds(i).y)
            /\ OnGrid(ReturnedBounds(i).x + ReturnedBounds(i).width)
            /\ OnGrid(ReturnedBounds(i).y + ReturnedBounds(i).height)

\* C6: no step of the call changes the rooms passed or the caller's newBounds
\* object.
C6_InputsNotMutated == [][rooms' = rooms /\ newBoundsObj' = newBoundsObj]_vars

\* C7: the cleanup loop runs at most MaxCleanupPasses passes, and the call
\* returns.
C7_Terminates == [](safetyCounter <= MaxCleanupPasses) /\ <>Done

\* The call returned although its last allowed pass still found an overlap.
C7_Witness == Done /\ safetyCounter = MaxCleanupPasses /\ hasOverlap

\* An offset in ten-thousandths.
OffsetPer10000(offset) == RoundDiv(offset.num, offset.den \div 10000)

\* Dragging (no resize) a room that has one unlocked neighbour, on a grid the
\* two rooms are aligned to, with the moved room and the neighbour's ideal
\* position inside the canvas and no third room.
SingleNeighbourCase ==
    /\ Len(rooms) = 2
    /\ ~rooms[2].isLocked
    /\ iterations = DefaultIterations
    /\ grid.size = 10
    /\ newBounds.width = rooms[MovedIndex].bounds.width
    /\ newBounds.height = rooms[MovedIndex].bounds.height
    /\ InsideCanvas(newBounds)
    /\ LET before == buildConnectivityGraph(rooms)[movedRoomId]
       IN /\ Len(before) = 1
          /\ LET ideal == calculateConnectedPosition(
                              newBounds, rooms[2], before[1])
             IN InsideCanvas([rooms[2].bounds EXCEPT
                                 !.x = ideal.x, !.y = ideal.y])

\* C8: the single neighbour of a dragged room is returned adjacent to it, on
\* the side and (to a hundredth) at the offset findAdjacentRooms reported
\* before the move.
C8_NeighbourKeepsConnection ==
    (Done /\ SingleNeighbourCase) =>
        LET before == buildConnectivityGraph(rooms)[movedRoomId][1]
            returned == [i \in 1..Len(result) |-> result[i].room]
            after == findAdjacentRooms(returned[MovedIndex], returned,
                                       Px(DefaultTolerance))
        IN /\ Len(after) = 1
           /\ after[1].side = before.side
           /\ Abs(OffsetPer10000(after[1].offset)
                    - OffsetPer10000(before.offset)) <= 100

\* The scenario of C9: A = room 1 at (0,0), B = room 2 at (40,0), a locked
\* room 3 at (0,40), all 40 x 40; A is moved to (0,40) with the default
\* iterations.
Scenario9 ==
    /\ rooms = << Room(1, Box(0, 0, 40, 40), FALSE),
                  Room(2, Box(40, 0, 40, 40), FALSE),
                  Room(3, Box(0, 40, 40, 40), TRUE) >>
    /\ movedRoomId = 1
    /\ newBounds = Box(0, 40, 40, 40)
    /\ iterations = DefaultIterations

\* Snapping leaves the scenario's rooms where they are: it is off, or the
\* grid size divides 40.
GridAligned9 == ~grid.snapEnabled \/ Px(40) % Px(grid.size) = 0

\* b is a 40 x 40 box within one canvas unit of (40, 40).
NearTarget9(b) ==
    /\ Abs(b.x - Px(40)) <= Px(1)
    /\ Abs(b.y - Px(40)) <= Px(1)
    /\ b.width = Px(40)
    /\ b.height = Px(40)

\* B overlaps the locked room in no working state and not in the returned
\* list, and is returned within a canvas unit of (40,40).
Converges9 ==
    /\ pc # "call" => ~boundsOverlap(workingBounds[2], workingBounds[3])
    /\ Done => /\ NearTarget9(ReturnedBounds(2))
               /\ ~boundsOverlap(ReturnedBounds(2), ReturnedBounds(3))

\* C9 as stated: the scenario converges, whatever the grid.
C9_ScenarioConvergesOnAnyGrid == Scenario9 => Converges9

\* C9, amended: the scenario converges when snapping is off or the grid size
\* divides 40; B never overlaps the locked room and is returned within a
\* canvas unit of (40,40).
C9_ScenarioConverges == (Scenario9 /\ GridAligned9) => Converges9

\* The scenario's call returned, on an aligned grid, with B moved.
C9_Witness ==
    /\ Scenario9
    /\ GridAligned9
    /\ Done
    /\ ReturnedBounds(2) # rooms[2].bounds
    /\ NearTarget9(ReturnedBounds(2))

\* C10: a room whose final bounds equal the bounds it came in with is returned
\* as the input room object itself, no field changed.
C10_UnchangedRoomsReturnedAsIs ==
    Done => \A i \in 1..Len(rooms) :
                SameBounds(ReturnedBounds(i), rooms[i].bounds) =>
                    result[i].ref = "input" /\ result[i].room = rooms[i]

\* A call that moved one room and returned another one untouched.
C10_Witness ==
    /\ Done
    /\ \E i, j \in 1..Len(rooms) :
          /\ result[i].ref = "input"
          /\ SameBounds(ReturnedBounds(i), rooms[i].bounds)
          /\ result[j].ref = "new"

\* The derived fields of a room agree with its bounds.
DerivedFieldsConsistent(room) ==
    /\ room.points = boundsToPoints(room.bounds)
    /\ room.widthInches = pixelsToInches(room.bounds.width)
    /\ room.heightInches = pixelsToInches(room.bounds.height)
    /\ room.areaSqft = pixelsToSqft(PixelArea(room.bounds))

\* C11: every returned room whose bounds changed has points, widthInches,
\* heightInches and areaSqft recomputed from its new bounds.
C11_ChangedRoomsRecomputed ==
    Done => \A i \in 1..Len(rooms) :
                ~SameBounds(ReturnedBounds(i), rooms[i].bounds) =>
                    DerivedFieldsConsistent(result[i].room)

\* A returned room was moved and resized, so that its points, its inches and
\* its area all differ from the input's.
C11_Witness ==
    /\ Done
    /\ \E i \in 1..Len(rooms) :
          /\ result[i].room.points # rooms[i].points
          /\ result[i].room.widthInches # rooms[i].widthInches
          /\ result[i].room.areaSqft # rooms[i].areaSqft
          /\ DerivedFieldsConsistent(result[i].room)

\* C12: every room returned by applySpringNetwork is at least MIN_ROOM_SIZE
\* wide and high, with snapping on or off.
C12_ReturnedRoomsAtLeastMinSize ==
    Done => \A i \in 1..Len(rooms) :
                /\ ReturnedBounds(i).width >= Px(MIN_ROOM_SIZE)
                /\ ReturnedBounds(i).height >= Px(MIN_ROOM_SIZE)

\* C13: with snapping on, every box snapBoundsToGrid is applied to comes out
\* with its four sides on multiples of grid.size and with width and height of
\* at least MIN_ROOM_SIZE.
C13_SnappedBoxOnGridWithMinSize ==
    (pc = "snap" /\ grid.snapEnabled) =>
        \A id \in DOMAIN workingBounds :
            LET snapped == snapBoundsToGrid(workingBounds[id], grid)
            IN /\ OnGrid(snapped.x)
               /\ OnGrid(snapped.y)
               /\ OnGrid(snapped.x + snapped.width)
               /\ OnGrid(snapped.y + snapped.height)
               /\ snapped.width >= Px(MIN_ROOM_SIZE)
               /\ snapped.height >= Px(MIN_ROOM_SIZE)

\* Tolerances boundsAdjacent is asked with: none, the default, a whole canvas.
Tolerances == { 0, DefaultTolerance, CANVAS_SIZE }

\* C14: two boxes that overlap are adjacent for no tolerance; checked on every
\* pair of working boxes of the call.
C14_OverlapExcludesAdjacent ==
    pc # "call" =>
        \A i, j \in DOMAIN workingBounds :
            boundsOverlap(workingBounds[i], workingBounds[j]) =>
                \A t \in Tolerances :
                    ~boundsAdjacent(workingBounds[i], workingBounds[j], Px(t))

\* Two different working boxes overlap while two others are adjacent.
C14_Witness ==
    /\ pc # "call"
    /\ \E i, j \in DOMAIN workingBounds :
          /\ i # j
          /\ boundsOverlap(workingBounds[i], workingBounds[j])
          /\ ~boundsAdjacent(workingBounds[i], workingBounds[j],
                             Px(CANVAS_SIZE))
    /\ \E i, j \in DOMAIN workingBounds :
          boundsAdjacent(workingBounds[i], workingBounds[j],
                         Px(DefaultTolerance))

\* The moved room's connections in the graph of the input rooms.
PreMoveConnections == buildConnectivityGraph(rooms)[movedRoomId]

\* C15: the graph the call holds is, from its first step on, the graph of the
\* input rooms and is never replaced; every attraction step moves exactly the
\* unlocked rooms connected to the moved room in that graph, each towards the
\* position its pre-move side and offset give, and leaves every other box.
C15_GraphBuiltOnceBeforeMove ==
    [][/\ pc' # "call" => originalGraph' = buildConnectivityGraph(rooms)
       /\ pc = "attract" =>
             \A id \in DOMAIN workingBounds :
                 LET cs == SelectSeq(PreMoveConnections, LAMBDA c :
                               c.roomId = id /\ ~FindRoom(rooms, id).isLocked)
                 IN workingBounds'[id] =
                       IF Len(cs) = 0 THEN workingBounds[id]
                       ELSE SpringTowards(
                                workingBounds[id],
                                calculateConnectedPosition(
                                    workingBounds[movedRoomId],
                                    FindRoom(rooms, id), cs[1]),
                                3, 5)]_vars

\* An attraction step of a later iteration is about to run while the working
\* positions give the moved room other connections than the input did.
C15_Witness ==
    /\ pc = "attract"
    /\ iter > 0
    /\ Len(PreMoveConnections) > 0
    /\ buildConnectivityGraph(RoomsAt(workingBounds))[movedRoomId]
          # PreMoveConnections

FoundBounds == findBounds

\* The bounds returned overlap no room of allRooms other than the room.
FoundPositionFree ==
    \A k \in 1..Len(rooms) :
        rooms[k].id # findRoomId => ~boundsOverlap(FoundBounds, rooms[k].bounds)

\* C16: findNonOverlappingPosition runs at most maxIterations iterations and
\* returns; the bounds it returns overlap no other room of allRooms unless
\* every one of the maxIterations iterations nudged.
C16_FoundPositionFreeUnlessCapHit ==
    /\ [](findI <= maxIterations)
    /\ []((pc = "found" /\ findI < maxIterations) => FoundPositionFree)
    /\ <>(pc = "found")

\* A call returned a free position after at least one nudge.
C16_Witness ==
    /\ pc = "found"
    /\ findI > 0
    /\ findI < maxIterations
    /\ FoundPositionFree
    /\ findBounds # desiredBounds

\* A call returned after maxIterations nudges with a position that still
\* overlaps a room.
C16_CapHitOverlapping ==
    /\ pc = "found"
    /\ findI = maxIterations
    /\ ~FoundPositionFree

(***************************************************************************)
(* SVG parsing and serialization                                           *)
(*                                                                         *)
(* A document is the sequence of its elements.  An attribute holding text  *)
(* is a string; a list of numbers (points, d) is the sequence of its       *)
(* tokens: a maximal run of digits and dots is a "num" token with the      *)
(* number it spells, and "-", "," and " " are tokens of their own.         *)
(***************************************************************************)
\* color.toLowerCase().trim(), on the fills of the model.
LowerTrim(color) ==
    CASE color = "#FD4041" -> "#fd4041"
      [] color = "#3A6DF8" -> "#3a6df8"
      [] color = " #3A6DF8 " -> "#3a6df8"
      [] color = "#F80" -> "#f80"
      [] color = "#FFFFFF" -> "#ffffff"
      [] color = "#FFF" -> "#fff"
      [] color = "White" -> "white"
      [] color = "NONE" -> "none"
      [] OTHER -> color

\* '#' + c[1] + c[1] + c[2] + c[2] + c[3] + c[3] for a 3-digit hex colour.
ExpandHex(c) ==
    CASE c = "#f80" -> "#ff8800"
      [] c = "#fff" -> "#ffffff"
      [] c = "#000" -> "#000000"
      [] OTHER -> c

normalizeColor(color) ==
    IF color = "" THEN "" ELSE ExpandHex(LowerTrim(color))

\* A test that lets every colour through.
isRoomColorAlways(fill) == TRUE

isRoomColor(fill) ==
    LET color == normalizeColor(fill)
    IN /\ ~(color = "" \/ color = "none" \/ color = "transparent")
       /\ ~(color = "#ffffff" \/ color = "#fff" \/ color = "white")
       /\ ~(color = "#000000" \/ color = "#000" \/ color = "black")

\* The catalog, in the order the Map iterates it.
roomTypes ==
    << [key |-> "primary_bedroom", display |-> "Primary Bedroom",
        colors |-> [training_hex |-> "#FD4041", ui_hex |-> "#ffd6d6"]],
       [key |-> "bathroom", display |-> "Bathroom",
        colors |-> [training_hex |-> "#3A6DF8", ui_hex |-> ""]],
       [key |-> "storage", display |-> "Storage",
        colors |-> [training_hex |-> "#F80", ui_hex |-> "#ffe0b3"]] >>

\* The roomDef of no catalog entry (roomDef is undefined).
NoRoomDef ==
    [key |-> "", display |-> "", colors |-> [training_hex |-> "", ui_hex |-> ""]]

\* A lookup against the training_hex as the catalog spells it.
colorToTypeUnnormalized(fill) ==
    LET hits == { k \in 1..Len(roomTypes) :
                    roomTypes[k].colors.training_hex = fill }
    IN IF hits = {} THEN NoRoomDef
       ELSE roomTypes[CHOOSE k \in hits : \A l \in hits : l <= k]

\* colorToType.get(fill): the last entry set under that normalized colour.
colorToType(fill) ==
    LET hits == { k \in 1..Len(roomTypes) :
                    /\ roomTypes[k].colors.training_hex # ""
                    /\ normalizeColor(roomTypes[k].colors.training_hex) = fill }
    IN IF hits = {} THEN NoRoomDef
       ELSE roomTypes[CHOOSE k \in hits : \A l \in hits : l <= k]

Num(v) == [t |-> "num", v |-> v]

Sep(t) == [t |-> t, v |-> 0]

\* `${n}` for a number on the lattice: a minus sign, if any, and the digits.
NumberToTokens(n) == IF n < 0 THEN << Sep("-"), Num(-n) >> ELSE << Num(n) >>

IsSeparator(tok) == tok.t = "," \/ tok.t = " "

\* The index of the first token from k on that is no "," or " ".
RECURSIVE SkipSeparators(_, _)
SkipSeparators(toks, k) ==
    IF k <= Len(toks) /\ IsSeparator(toks[k])
    THEN SkipSeparators(toks, k + 1)
    ELSE k

\* pointsStr.match(/[\d.]+[,\s]+[\d.]+/g) and the split of each pair: a
\* number, one or more of "," and " ", a number; matches do not overlap, and
\* a "-" belongs to no match.
RECURSIVE parsePolygonPointsFrom(_, _)
parsePolygonPointsFrom(toks, k) ==
    IF k > Len(toks) THEN << >>
    ELSE LET j == SkipSeparators(toks, k + 1)
         IN IF /\ toks[k].t = "num"
               /\ j > k + 1
               /\ j <= Len(toks)
               /\ toks[j].t = "num"
            THEN << [x |-> toks[k].v, y |-> toks[j].v] >>
                 \o parsePolygonPointsFrom(toks, j + 1)
            ELSE parsePolygonPointsFrom(toks, k + 1)

parsePolygonPoints(pointsStr) == parsePolygonPointsFrom(pointsStr, 1)

\* d.match(/[\d.]+/g): every number of the path data, in order.
PathNumbers(d) == SelectSeq(d, LAMBDA tok : tok.t = "num")

SetMin(S) == CHOOSE a \in S : \A b \in S : a <= b

SetMax(S) == CHOOSE a \in S : \A b \in S : b <= a

getBoundingBox(points) ==
    IF Len(points) = 0 THEN [x |-> 0, y |-> 0, width |-> 0, height |-> 0]
    ELSE LET xs == { points[k].x : k \in 1..Len(points) }
             ys == { points[k].y : k \in 1..Len(points) }
         IN [x |-> SetMin(xs), y |-> SetMin(ys),
             width |-> SetMax(xs) - SetMin(xs),
             height |-> SetMax(ys) - SetMin(ys)]

parsePathBounds(d) ==
    LET numbers == PathNumbers(d)
        coords == [k \in 1..(Len(numbers) \div 2) |->
                      [x |-> numbers[2 * k - 1].v, y |-> numbers[2 * k].v]]
    IN IF Len(coords) < 2 THEN << >>
       ELSE boundsToPoints(getBoundingBox(coords))

\* The shoelace sum, in whole square pixels (the points are on whole pixels).
RECURSIVE ShoelaceFrom(_, _)
ShoelaceFrom(points, k) ==
    IF k > Len(points) THEN 0
    ELSE LET j == (k % Len(points)) + 1
         IN (points[k].x \div Scale) * (points[j].y \div Scale)
            - (points[j].x \div Scale) * (points[k].y \div Scale)
            + ShoelaceFrom(points, k + 1)

\* Math.abs(area) / 2; the polygons of the model have an even shoelace sum.
calculatePolygonArea(points) ==
    IF Len(points) < 3 THEN 0 ELSE Abs(ShoelaceFrom(points, 1)) \div 2

\* An element of the document: tagName, the fill attribute ("" when absent),
\* the numbers parseFloat reads from x, y, width and height (0 when absent)
\* and the tokens of the points or d attribute.
Element(tagName, fill, box, toks) ==
    [tagName |-> tagName, fill |-> fill, x |-> box.x, y |-> box.y,
     width |-> box.width, height |-> box.height, points |-> toks]

\* room.points.map(p => `${p.x},${p.y}`).join(' '), from the k-th point on.
RECURSIVE PointsToTokens(_, _)
PointsToTokens(points, k) ==
    IF k > Len(points) THEN << >>
    ELSE NumberToTokens(points[k].x) \o << Sep(",") >>
         \o NumberToTokens(points[k].y)
         \o (IF k < Len(points) THEN << Sep(" ") >> ELSE << >>)
         \o PointsToTokens(points, k + 1)

roomsToSvg(rs) ==
    [k \in 1..Len(rs) |->
        Element("polygon", rs[k].trainingColor, Box(0, 0, 0, 0),
                PointsToTokens(rs[k].points, 1))]

\* A polygon and a text label per room; the label is filled "#333".
roomsToLabeledSvg(rs) ==
    [k \in 1..(2 * Len(rs)) |->
        IF k % 2 = 1
        THEN Element("polygon", rs[(k + 1) \div 2].fillColor, Box(0, 0, 0, 0),
                     PointsToTokens(rs[(k + 1) \div 2].points, 1))
        ELSE Element("text", "#333", Box(0, 0, 0, 0), << >>)]

\* svg.querySelectorAll('rect, polygon, path')
ShapesOf(doc) ==
    SelectSeq(doc, LAMBDA el : el.tagName \in {"rect", "polygon", "path"})

\* The points read from a shape (lines 970-992).
ShapePoints(el) ==
    CASE el.tagName = "rect" ->
            << [x |-> el.x, y |-> el.y],
               [x |-> el.x + el.width, y |-> el.y],
               [x |-> el.x + el.width, y |-> el.y + el.height],
               [x |-> el.x, y |-> el.y + el.height] >>
      [] el.tagName = "polygon" -> parsePolygonPoints(el.points)
      [] el.tagName = "path" -> parsePathBounds(el.points)

\* The callback of elements.forEach for one element: the rooms it pushes,
\* none when the element is skipped.  Ids are element indexes from 0.
RoomsOfElement(el, elementIdx) ==
    LET fill == normalizeColor(el.fill)
        roomDef == colorToType(fill)
        points == ShapePoints(el)
        bounds == getBoundingBox(points)
    IN IF ~isRoomColor(fill) THEN << >>
       ELSE IF el.tagName = "rect" /\ (el.width < Px(5) \/ el.height < Px(5))
       THEN << >>
       ELSE IF Len(points) < 3 THEN << >>
       ELSE IF bounds.width < Px(10) \/ bounds.height < Px(10) THEN << >>
       ELSE << [id |-> elementIdx,
                roomType |-> IF roomDef.key # "" THEN roomDef.key ELSE "room",
                displayName |-> IF roomDef.display # ""
                                THEN roomDef.display ELSE "Room",
                points |-> points,
                bounds |-> bounds,
                fillColor |-> IF roomDef.colors.ui_hex # ""
                              THEN roomDef.colors.ui_hex ELSE fill,
                trainingColor |-> fill,
                areaSqft |-> pixelsToSqft(calculatePolygonArea(points)),
                widthInches |-> pixelsToInches(bounds.width),
                heightInches |-> pixelsToInches(bounds.height),
                isLocked |-> FALSE] >>

\* Fill attributes: absent, background and border colours in several
\* spellings, catalog colours in several spellings, a colour of no entry.
Fills ==
    { "", "none", "NONE", "transparent", "#FFFFFF", "#FFF", "#fff", "White",
      "white", "#000000", "#000", "black", "#FD4041", "#fd4041", " #3A6DF8 ",
      "#F80", "#ff8800", "#123456" }

\* Rectangles: rooms, one at negative x, a narrow one, a zero-width one, a
\* speck.
RectBoxes ==
    { Box(0, 0, 40, 40), Box(10, 20, 30, 16), Box(-20, 0, 40, 40),
      Box(4, 4, 8, 40), Box(0, 0, 0, 40), Box(50, 50, 4, 4) }

\* points attributes: a rectangle, an L shape, two points, three times the
\* same point, nothing.
PointLists ==
    { PointsToTokens(boundsToPoints(Box(40, 0, 40, 20)), 1),
      PointsToTokens(<< [x |-> Px(0), y |-> Px(0)], [x |-> Px(40), y |-> Px(0)],
                        [x |-> Px(40), y |-> Px(20)], [x |-> Px(20), y |-> Px(20)],
                        [x |-> Px(20), y |-> Px(40)], [x |-> Px(0), y |-> Px(40)] >>, 1),
      PointsToTokens(<< [x |-> Px(0), y |-> Px(0)],
                        [x |-> Px(40), y |-> Px(40)] >>, 1),
      PointsToTokens(<< [x |-> Px(30), y |-> Px(30)], [x |-> Px(30), y |-> Px(30)],
                        [x |-> Px(30), y |-> Px(30)] >>, 1),
      << >> }

\* d attributes: "M 10 10 L 50 10 L 50 40 Z" and "M 10 10".
PathData ==
    { << Sep("M"), Sep(" "), Num(Px(10)), Sep(" "), Num(Px(10)), Sep(" "),
         Sep("L"), Sep(" "), Num(Px(50)), Sep(" "), Num(Px(10)), Sep(" "),
         Sep("L"), Sep(" "), Num(Px(50)), Sep(" "), Num(Px(40)), Sep(" "),
         Sep("Z") >>,
      << Sep("M"), Sep(" "), Num(Px(10)), Sep(" "), Num(Px(10)) >> }

Shapes ==
    { Element("rect", f, b, << >>) : f \in Fills, b \in RectBoxes }
    \cup { Element("polygon", f, Box(0, 0, 0, 0), ps) :
              f \in Fills, ps \in PointLists }
    \cup { Element("path", f, Box(0, 0, 0, 0), d) : f \in Fills, d \in PathData }

\* Shapes that are rooms whatever else the document holds.
GoodShapes ==
    { Element("rect", "#FD4041", Box(60, 60, 20, 30), << >>),
      Element("polygon", "#3A6DF8", Box(0, 0, 0, 0),
              PointsToTokens(boundsToPoints(Box(80, 0, 40, 40)), 1)) }

\* Documents from elsewhere: one shape, or a shape before or after a good one.
Documents ==
    { << e >> : e \in Shapes }
    \cup { << e, g >> : e \in Shapes, g \in GoodShapes }
    \cup { << g, e >> : e \in Shapes, g \in GoodShapes }

\* A rectangular room of the catalog entry roomDef, as createRoom builds it.
SvgRoom(id, bounds, roomDef) ==
    [id |-> id, roomType |-> roomDef.key, displayName |-> roomDef.display,
     points |-> boundsToPoints(bounds), bounds |-> bounds,
     fillColor |-> IF roomDef.colors.ui_hex # ""
                   THEN roomDef.colors.ui_hex ELSE "#cccccc",
     trainingColor |-> roomDef.colors.training_hex,
     areaSqft |-> pixelsToSqft(PixelArea(bounds)),
     widthInches |-> pixelsToInches(bounds.width),
     heightInches |-> pixelsToInches(bounds.height),
     isLocked |-> FALSE]

\* Boxes of rooms to serialize, one of them dragged past the left edge.
SvgBoxes ==
    { Box(0, 0, 40, 40), Box(40, 0, 40, 20), Box(0, 40, 20, 20),
      Box(-20, 60, 50, 40) }

\* One or two rooms that do not overlap, of any catalog entries.
SvgRoomLists ==
    { << SvgRoom(0, b, roomTypes[k]) >> :
         b \in SvgBoxes, k \in 1..Len(roomTypes) }
    \cup { << SvgRoom(0, p[1], roomTypes[q[1]]), SvgRoom(1, p[2], roomTypes[q[2]]) >> :
              p \in { bb \in SvgBoxes \X SvgBoxes : ~boundsOverlap(bb[1], bb[2]) },
              q \in (1..Len(roomTypes)) \X (1..Len(roomTypes)) }

\* Either a document from elsewhere is about to be parsed, or a room list is
\* about to be serialized and parsed back.
ParseInit ==
    /\ \/ /\ svgElements \in Documents
          /\ svgRooms = << >>
          /\ pc = "parse"
       \/ /\ svgRooms \in SvgRoomLists
          /\ svgElements = << >>
          /\ pc = "serialize"
    /\ serializer = "none"
    /\ elementIndex = 0
    /\ parsedRooms = << >>
    /\ NoFind
    /\ NoHelper
    /\ rooms = << >>
    /\ grid = [size |-> 10, snapEnabled |-> TRUE]
    /\ movedRoomId = 1
    /\ newBounds = MovedBox
    /\ iterations = 0
    /\ newBoundsObj = newBounds
    /\ originalGraph = << >>
    /\ workingBounds = << >>
    /\ iter = 0
    /\ hasOverlap = FALSE
    /\ safetyCounter = 0
    /\ result = << >>

SerializePlain ==
    /\ pc = "serialize"
    /\ svgElements' = roomsToSvg(svgRooms)
    /\ serializer' = "roomsToSvg"
    /\ pc' = "parse"
    /\ UNCHANGED << springCall, finderVars, helperVars, svgRooms, elementIndex,
                    parsedRooms >>

SerializeLabeled ==
    /\ pc = "serialize"
    /\ svgElements' = roomsToLabeledSvg(svgRooms)
    /\ serializer' = "roomsToLabeledSvg"
    /\ pc' = "parse"
    /\ UNCHANGED << springCall, finderVars, helperVars, svgRooms, elementIndex,
                    parsedRooms >>

\* One callback of elements.forEach.
ParseElement ==
    /\ pc = "parse"
    /\ elementIndex < Len(ShapesOf(svgElements))
    /\ parsedRooms' =
          parsedRooms \o RoomsOfElement(ShapesOf(svgElements)[elementIndex + 1],
                                        elementIndex)
    /\ elementIndex' = elementIndex + 1
    /\ UNCHANGED << springCall, finderVars, helperVars, svgRooms, serializer, svgElements,
                    pc >>

\* return rooms
ParseReturn ==
    /\ pc = "parse"
    /\ elementIndex = Len(ShapesOf(svgElements))
    /\ pc' = "parsed"
    /\ UNCHANGED << springCall, otherCalls >>

ParseNext ==
    \/ SerializePlain
    \/ SerializeLabeled
    \/ ParseElement
    \/ ParseReturn

ParseSpec == ParseInit /\ [][ParseNext]_vars

Parsed == pc = "parsed"

\* A document from elsewhere that holds one rectangle, filled with a catalog
\* entry's training_hex.
CatalogRectDocument ==
    /\ serializer = "none"
    /\ Len(svgElements) = 1
    /\ svgElements[1].tagName = "rect"
    /\ \E k \in 1..Len(roomTypes) :
          svgElements[1].fill = roomTypes[k].colors.training_hex

\* Exactly one room was parsed: it has the entry's key and display, the
\* rectangle's x, y, width and height as bounds and the converted area.
OneRoomOfTheRect ==
    LET el == svgElements[1]
        def == roomTypes[CHOOSE k \in 1..Len(roomTypes) :
                            el.fill = roomTypes[k].colors.training_hex]
    IN /\ Len(parsedRooms) = 1
       /\ parsedRooms[1].roomType = def.key
       /\ parsedRooms[1].displayName = def.display
       /\ parsedRooms[1].bounds =
             [x |-> el.x, y |-> el.y, width |-> el.width, height |-> el.height]
       /\ parsedRooms[1].areaSqft =
             pixelsToSqft((el.width \div Scale) * (el.height \div Scale))

\* C17 (as stated): a document of one rectangle filled with a catalog entry's
\* training_hex parses to exactly one room, with the entry's key and display,
\* the rectangle's geometry as bounds and the converted rectangle area,
\* whatever the rectangle's geometry.
C17_CatalogRectParsesToItsRoom ==
    (Parsed /\ CatalogRectDocument) => OneRoomOfTheRect

\* C17 (amended): the same for every rectangle at least 10 wide and 10 high.
C17_CatalogRectOfRoomSizeParsesToItsRoom ==
    (/\ Parsed
     /\ CatalogRectDocument
     /\ svgElements[1].width >= Px(10)
     /\ svgElements[1].height >= Px(10)) => OneRoomOfTheRect

\* A catalog-coloured rectangle, here one that starts at a negative x, was
\* parsed to its room.
C17_Witness ==
    /\ Parsed
    /\ CatalogRectDocument
    /\ svgElements[1].x < 0
    /\ OneRoomOfTheRect

\* C18: serializing a list of non-overlapping rectangular rooms of catalog
\* colours with roomsToSvg and parsing the document gives as many rooms, each
\* with the roomType and the bounds of the room it was written from.
C18_SvgRoundTrip ==
    (Parsed /\ serializer = "roomsToSvg") =>
        /\ Len(parsedRooms) = Len(svgRooms)
        /\ \A k \in 1..Len(svgRooms) :
              k <= Len(parsedRooms) =>
                  /\ parsedRooms[k].roomType = svgRooms[k].roomType
                  /\ parsedRooms[k].bounds = svgRooms[k].bounds


\* The shapes of the serialized document are one per room, in the rooms'
\* order, each written from its room's points and filled with trainingColor.
OneCanonicalShapePerRoom ==
    /\ Len(ShapesOf(svgElements)) = Len(svgRooms)
    /\ \A k \in 1..Len(svgRooms) :
          k <= Len(ShapesOf(svgElements)) =>
              /\ ShapesOf(svgElements)[k].points
                    = PointsToTokens(svgRooms[k].points, 1)
              /\ ShapesOf(svgElements)[k].fill = svgRooms[k].trainingColor

\* Every room parsed from the serialized document has the roomType of the
\* room its shape was written for.
RoomTypesRecovered ==
    \A k \in 1..Len(parsedRooms) :
        parsedRooms[k].id + 1 \in 1..Len(svgRooms)
        /\ parsedRooms[k].roomType = svgRooms[parsedRooms[k].id + 1].roomType

\* C19: the document of either serializer, roomsToSvg or roomsToLabeledSvg,
\* holds exactly one shape per room, written from the room's points and filled
\* with its trainingColor, and the rooms parsed from it have the rooms'
\* roomTypes.
C19_BothSerializersUseTrainingColor ==
    (serializer # "none") =>
        /\ OneCanonicalShapePerRoom
        /\ Parsed => RoomTypesRecovered

\* Fill attributes that are absent, "none", "transparent", pure white or pure
\* black, as documents spell them.
BackgroundFills ==
    { "", "none", "NONE", "transparent", "#FFFFFF", "#FFF", "#fff", "White",
      "white", "#000000", "#000", "black" }

\* A shape the parser has to skip: a background fill, a polygon of fewer than
\* 3 points, or a shape of zero width or height.
BadShape(el) ==
    \/ el.fill \in BackgroundFills
    \/ el.tagName = "polygon" /\ Len(PathNumbers(el.points)) < 6
    \/ el.tagName = "rect" /\ (el.width = 0 \/ el.height = 0)
    \/ /\ el.tagName = "polygon"
       /\ \/ getBoundingBox(ShapePoints(el)).width = 0
          \/ getBoundingBox(ShapePoints(el)).height = 0

\* A shape that is a room: a fill that is no background and an outline of at
\* least 3 points that is at least 10 by 10.
ValidShape(el) ==
    /\ el.fill \notin BackgroundFills
    /\ Len(ShapePoints(el)) >= 3
    /\ getBoundingBox(ShapePoints(el)).width >= Px(10)
    /\ getBoundingBox(ShapePoints(el)).height >= Px(10)

\* The rooms parsed from the element of index elementIdx.
RoomsWithId(elementIdx) ==
    { k \in 1..Len(parsedRooms) : parsedRooms[k].id = elementIdx }

\* C20: when the parse of a document returns, every shape was visited; a shape
\* with a background fill, fewer than 3 polygon points or zero size gave no
\* room, and every valid shape of the document gave exactly one room, whatever
\* the other shapes were.
C20_BadShapeSkippedOthersParsed ==
    (Parsed /\ serializer = "none") =>
        /\ elementIndex = Len(ShapesOf(svgElements))
        /\ \A k \in 1..Len(ShapesOf(svgElements)) :
              /\ BadShape(ShapesOf(svgElements)[k]) => RoomsWithId(k - 1) = {}
              /\ ValidShape(ShapesOf(svgElements)[k]) =>
                    Cardinality(RoomsWithId(k - 1)) = 1

\* A returned parse of two shapes whose first was a bad shape and whose second
\* gave the only room.
C20_Witness ==
    /\ Parsed
    /\ serializer = "none"
    /\ Len(ShapesOf(svgElements)) = 2
    /\ BadShape(ShapesOf(svgElements)[1])
    /\ ValidShape(ShapesOf(svgElements)[2])
    /\ Len(parsedRooms) = 1
    /\ parsedRooms[1].id = 1

(***************************************************************************)
(* Unit conversions, there and back                                        *)
(***************************************************************************)
\* applySpringNetwork is not called: its own arguments and locals are idle.
SpringNotCalled ==
    /\ movedRoomId = 1
    /\ newBounds = MovedBox
    /\ iterations = 0
    /\ newBoundsObj = newBounds
    /\ originalGraph = << >>
    /\ workingBounds = << >>
    /\ iter = 0
    /\ hasOverlap = FALSE
    /\ safetyCounter = 0
    /\ result = << >>

\* Nor is there a layout or a grid.
NoSpring ==
    /\ rooms = << >>
    /\ grid = [size |-> 10, snapEnabled |-> TRUE]
    /\ SpringNotCalled

MaxUnitValue == 40

\* Areas: the whole numbers and the halves up to MaxUnitValue.
UnitValues == { DoubleOfBinary(n, k) : n \in 1..MaxUnitValue, k \in {0, 1} }

\* A conversion is about to be called on an area, and its inverse on what it
\* returns.
UnitInit ==
    /\ helperCall \in { "sqftToPixels", "pixelsToSqft" }
    /\ helperArg \in UnitValues
    /\ helperResults = << >>
    /\ pc = "convert"
    /\ NoSpring
    /\ NoFind
    /\ NoParse

\* The value the next conversion is called on.
UnitValue == IF helperResults = << >> THEN helperArg ELSE helperResults[1]

\* The next conversion is sqftToPixels: it is the first one, or the inverse
\* of the first one.
SqftToPixelsIsNext ==
    \/ pc = "convert" /\ helperCall = "sqftToPixels"
    \/ pc = "invert" /\ helperCall = "pixelsToSqft"

CallSqftToPixels ==
    /\ pc \in { "convert", "invert" }
    /\ SqftToPixelsIsNext
    /\ helperResults' = Append(helperResults, sqftToPixels(UnitValue))
    /\ pc' = IF pc = "convert" THEN "invert" ELSE "converted"
    /\ UNCHANGED << springCall, finderVars, parserVars, helperCall, helperArg >>

CallPixelsToSqft ==
    /\ pc \in { "convert", "invert" }
    /\ ~SqftToPixelsIsNext
    /\ helperResults' = Append(helperResults, pixelsToSqftDouble(UnitValue))
    /\ pc' = IF pc = "convert" THEN "invert" ELSE "converted"
    /\ UNCHANGED << springCall, finderVars, parserVars, helperCall, helperArg >>

UnitNext ==
    \/ CallSqftToPixels
    \/ CallPixelsToSqft

UnitSpec == UnitInit /\ [][UnitNext]_vars

CentreBoxes == { Box(40, 40, 40, 40), Box(50, 10, 20, 100), Box(10, 50, 100, 20) }

\* Corners and sizes of the rooms around them.
NeighbourCorners == { 0, 20, 44, 70, 74, 80, 84 }

NeighbourSizes == { << 40, 40 >>, << 20, 40 >>, << 40, 20 >> }

NeighbourBoxes ==
    { Box(x, y, wh[1], wh[2]) :
        x \in NeighbourCorners, y \in NeighbourCorners, wh \in NeighbourSizes }

\* Two rooms that do not overlap, or three: touching, a few pixels apart,
\* staggered, corner to corner, far apart.
GraphLayouts ==
    { ab \in { << a, b >> : a \in CentreBoxes, b \in NeighbourBoxes } :
        ~boundsOverlap(ab[1], ab[2]) }
    \cup { << Box(40, 40, 40, 40), Box(80, 40, 20, 40), b >> :
              b \in { n \in NeighbourBoxes :
                         /\ ~boundsOverlap(Box(40, 40, 40, 40), n)
                         /\ ~boundsOverlap(Box(80, 40, 20, 40), n) } }

GraphInit ==
    /\ \E layout \in GraphLayouts :
          rooms = [i \in 1..Len(layout) |-> Room(i, layout[i], FALSE)]
    /\ grid = [size |-> 10, snapEnabled |-> TRUE]
    /\ SpringNotCalled
    /\ helperCall = "buildConnectivityGraph"
    /\ helperArg = << >>
    /\ helperResults = << >>
    /\ pc = "graph"
    /\ NoFind
    /\ NoParse

\* buildConnectivityGraph(rooms)
BuildGraph ==
    /\ pc = "graph"
    /\ helperResults' = << buildConnectivityGraph(rooms) >>
    /\ pc' = "place"
    /\ UNCHANGED << springCall, finderVars, parserVars, helperCall, helperArg >>

\* rs with the room of that id moved to position.
PlacedAt(rs, id, position) ==
    [i \in 1..Len(rs) |->
        IF rs[i].id = id
        THEN [rs[i] EXCEPT !.bounds = [rs[i].bounds EXCEPT !.x = position.x,
                                                            !.y = position.y]]
        ELSE rs[i]]

\* One connection of the graph, of a room m to a room c: c is put at
\* calculateConnectedPosition(m.bounds, c, connection) and the neighbours of
\* m are looked for again.
PlaceConnected ==
    /\ pc = "place"
    /\ \E m \in RoomIds(rooms) :
       \E i \in 1..Len(helperResults[1][m]) :
          LET connection == helperResults[1][m][i]
              position == calculateConnectedPosition(
                              FindRoom(rooms, m).bounds,
                              FindRoom(rooms, connection.roomId), connection)
              placed == PlacedAt(rooms, connection.roomId, position)
          IN /\ helperArg' = << m, connection >>
             /\ helperResults' =
                   Append(helperResults,
                          findAdjacentRooms(FindRoom(placed, m), placed,
                                            Px(DefaultTolerance)))
    /\ pc' = "placed"
    /\ UNCHANGED << springCall, finderVars, parserVars, helperCall >>

GraphNext ==
    \/ BuildGraph
    \/ PlaceConnected

GraphSpec == GraphInit /\ [][GraphNext]_vars

\* C22: with a connected room put at its ideal position, findAdjacentRooms
\* reports it for the same room again, with the same side and the same offset.
C22_IdealPositionPreservesConnection ==
    (pc = "placed") =>
        \E k \in 1..Len(helperResults[2]) : helperResults[2][k] = helperArg[2]

(***************************************************************************)
(* The passes of applySpringNetwork                                        *)
(***************************************************************************)
\* The ids of the rooms a connection list names.
ConnectedIds(connections) ==
    { connections[k].roomId : k \in 1..Len(connections) }

\* Rooms connected to a directly connected room, not to the moved room
\* itself, other than the moved room and not locked.
SecondaryRooms ==
    { id \in RoomIds(rooms) :
        /\ id # movedRoomId
        /\ ~FindRoom(rooms, id).isLocked
        /\ id \notin ConnectedIds(directConnections)
        /\ \E parent \in ConnectedIds(directConnections) :
              id \in ConnectedIds(originalGraph[parent]) }

\* bounds is the box of room id after a pull of 30% from its working bounds
\* to its ideal position at one of its directly connected parents.
PulledToParent(id, bounds) ==
    \E k \in 1..Len(directConnections) :
        LET parent == directConnections[k].roomId
        IN \E j \in 1..Len(originalGraph[parent]) :
              /\ originalGraph[parent][j].roomId = id
              /\ bounds = SpringTowards(
                              workingBounds[id],
                              calculateConnectedPosition(
                                  workingBounds[parent], FindRoom(rooms, id),
                                  originalGraph[parent][j]),
                              3, 10)

\* C23: the secondary pass runs in the first 3 iterations only; it pulls each
\* room connected to a directly connected room, but not to the moved room, 30%
\* of the way to its ideal position at its parent, and leaves every other room
\* where it is, the rooms directly connected to the moved room among them.
C23_SecondaryPassOnlyMovesSecondaryRooms ==
    [][(pc = "secondary") =>
          /\ iter < SecondaryIterations
          /\ \A id \in RoomIds(rooms) :
                IF id \in SecondaryRooms
                THEN PulledToParent(id, workingBounds'[id])
                ELSE workingBounds'[id] = workingBounds[id]]_vars

\* The working bounds the repulsion pass reads when it comes to the i-th
\* room: the rooms before it have been through the pass, the others not yet.
SeenByRepulsion(i) ==
    [id \in DOMAIN workingBounds |->
        IF \E j \in 1..(i - 1) : rooms[j].id = id
        THEN workingBounds'[id] ELSE workingBounds[id]]

\* The rooms whose box, as the i-th room sees it, overlaps the i-th room's.
OverlappedBy(i) ==
    { j \in 1..Len(rooms) :
        /\ j # i
        /\ boundsOverlap(SeenByRepulsion(i)[rooms[i].id],
                         SeenByRepulsion(i)[rooms[j].id]) }

\* to is from pushed along one axis by its penetration depth into other plus 2,
\* on the axis of the smaller depth (either axis when the depths are equal),
\* away from other's centre (either way when the centres agree on that axis).
PushedClear(from, other, to) ==
    LET penX == OverlapX(from, other)
        penY == OverlapY(from, other)
        dx == getBoundsCenter(from).x - getBoundsCenter(other).x
        dy == getBoundsCenter(from).y - getBoundsCenter(other).y
        alongX == /\ penX <= penY
                  /\ to.y = from.y
                  /\ \/ dx >= 0 /\ to.x = from.x + (penX + Px(2))
                     \/ dx <= 0 /\ to.x = from.x - (penX + Px(2))
        alongY == /\ penY <= penX
                  /\ to.x = from.x
                  /\ \/ dy >= 0 /\ to.y = from.y + (penY + Px(2))
                     \/ dy <= 0 /\ to.y = from.y - (penY + Px(2))
    IN /\ alongX \/ alongY
       /\ to.width = from.width /\ to.height = from.height
       /\ ~SameBounds(to, from)
       /\ ~boundsOverlap(to, other)

\* C24: in the repulsion pass a room (not the moved one, not locked) that
\* overlaps exactly one other room is pushed by the penetration depth plus 2
\* along the axis of the smaller depth, away from the other room's centre, and
\* is clear of that room afterwards; with equal depths or centres that agree
\* on the axis the room is pushed all the same.
C24_RepulsionPushesSingleOverlapClear ==
    [][(pc = "repel") =>
          \A i \in 1..Len(rooms) :
             (/\ rooms[i].id # movedRoomId
              /\ ~rooms[i].isLocked
              /\ Cardinality(OverlappedBy(i)) = 1) =>
                 \A j \in OverlappedBy(i) :
                    PushedClear(SeenByRepulsion(i)[rooms[i].id],
                                SeenByRepulsion(i)[rooms[j].id],
                                workingBounds'[rooms[i].id])]_vars

\* The working bounds the first repulsion pass of a call started from: the
\* rooms' bounds with newBounds for the moved room, after one attraction pass.
BeforeFirstRepulsion ==
    AttractionPass([id \in RoomIds(rooms) \cup {movedRoomId} |->
                       IF id = movedRoomId THEN newBoundsObj
                       ELSE FindRoom(rooms, id).bounds])

\* The first repulsion pass has pushed a room up by the depth plus 2: its
\* centre had the height of the centre of the only room it overlapped, and the
\* vertical depth was not the larger one.
C24_Witness ==
    /\ pc = "secondary"
    /\ iter = 0
    /\ \E i \in 1..Len(rooms) :
       \E j \in 1..Len(rooms) :
          LET before == BeforeFirstRepulsion
              bounds == before[rooms[i].id]
              otherBounds == before[rooms[j].id]
          IN /\ i # j
             /\ rooms[i].id # movedRoomId
             /\ ~rooms[i].isLocked
             /\ \A k \in 1..Len(rooms) :
                   (k # i /\ boundsOverlap(bounds, before[rooms[k].id]))
                      <=> k = j
             /\ \A k \in 1..(i - 1) :
                   workingBounds[rooms[k].id] = before[rooms[k].id]
             /\ getBoundsCenter(bounds).y = getBoundsCenter(otherBounds).y
             /\ OverlapY(bounds, otherBounds) <= OverlapX(bounds, otherBounds)
             /\ workingBounds[rooms[i].id] =
                   [bounds EXCEPT
                       !.y = bounds.y - (OverlapY(bounds, otherBounds) + Px(2))]


\* A pair of unlocked rooms overlaps in the returned list.
UnlockedOverlapReturned ==
    \E i, j \in 1..Len(result) :
        /\ i # j
        /\ ~rooms[i].isLocked
        /\ ~rooms[j].isLocked
        /\ boundsOverlap(ReturnedBounds(i), ReturnedBounds(j))

\* C25: if the cleanup loop ended on a pass that found no overlap, no pair of
\* unlocked rooms overlaps in the returned list; such an overlap is returned
\* only when the loop ran all of its MaxCleanupPasses passes and the last one
\* still found an overlap.
C25_OverlapReturnedOnlyAtCap ==
    /\ (Done /\ ~hasOverlap) => ~UnlockedOverlapReturned
    /\ (Done /\ UnlockedOverlapReturned) =>
          (hasOverlap /\ safetyCounter = MaxCleanupPasses)

\* The loop ended before its cap, on a pass that found nothing, after earlier
\* passes pushed an unlocked room away from where it came in; three unlocked
\* rooms are returned.
C25_Witness ==
    /\ Done
    /\ ~hasOverlap
    /\ safetyCounter \in 2..(MaxCleanupPasses - 1)
    /\ Len(result) = 3
    /\ \A i \in 1..Len(rooms) : ~rooms[i].isLocked
    /\ \E i \in 1..Len(rooms) :
          /\ rooms[i].id # movedRoomId
          /\ ReturnedBounds(i) # rooms[i].bounds

(***************************************************************************)
(* The connections of the graph                                            *)
(***************************************************************************)
\* The graph buildConnectivityGraph returned.
BuiltGraph == helperResults[1]

GraphBuilt == pc \in { "place", "placed" } /\ helperCall = "buildConnectivityGraph"

\* The interval [lo, hi] two boxes share when projected on the y axis (for a
\* left or right connection) or on the x axis (for a top or bottom one);
\* lo > hi when the projections do not meet.
SharedProjection(a, b, side) ==
    IF side \in { "left", "right" }
    THEN [lo |-> Max(a.y, b.y),
          hi |-> Min(a.y + a.height, b.y + b.height),
          edge |-> a.y, length |-> a.height]
    ELSE [lo |-> Max(a.x, b.x),
          hi |-> Min(a.x + a.width, b.x + b.width),
          edge |-> a.x, length |-> a.width]

\* C26: in every connection of a room r the side is left or right exactly
\* when the centres are further apart horizontally than vertically, and the
\* offset is in [0, 1] and is the midpoint of the interval the projections of
\* the two rooms share on the other axis, as a fraction of r's edge.
C26_SideByCentresOffsetAtSharedMidpoint ==
    GraphBuilt =>
        \A r \in RoomIds(rooms) :
        \A k \in 1..Len(BuiltGraph[r]) :
           LET connection == BuiltGraph[r][k]
               a == FindRoom(rooms, r).bounds
               b == FindRoom(rooms, connection.roomId).bounds
               dx == getBoundsCenter(b).x - getBoundsCenter(a).x
               dy == getBoundsCenter(b).y - getBoundsCenter(a).y
               shared == SharedProjection(a, b, connection.side)
           IN /\ (connection.side \in { "left", "right" }) <=> (Abs(dx) > Abs(dy))
              /\ 0 <= connection.offset.num
              /\ connection.offset.num <= connection.offset.den
              /\ shared.lo <= shared.hi
              /\ connection.offset.den = shared.length
              /\ connection.offset.num = (shared.lo + shared.hi) \div 2 - shared.edge

\* The layout passed in is on the grid, inside the canvas and free of
\* overlaps, and newBounds is the box the moved room already has.
NothingMoved ==
    /\ newBounds = FindRoom(rooms, movedRoomId).bounds
    /\ \A i \in 1..Len(rooms) :
          /\ InsideCanvas(rooms[i].bounds)
          /\ snapBoundsToGrid(rooms[i].bounds, grid) = rooms[i].bounds
    /\ \A i, j \in 1..Len(rooms) :
          i < j => ~boundsOverlap(rooms[i].bounds, rooms[j].bounds)

\* C27: a call whose newBounds is the moved room's own box, on a layout that
\* is on the grid, inside the canvas and free of overlaps, returns every room
\* as the input object, with the bounds it came in with.
C27_NoMoveIsFixedPoint ==
    (Done /\ NothingMoved) =>
        \A i \in 1..Len(rooms) :
            /\ result[i].ref = "input"
            /\ ReturnedBounds(i) = rooms[i].bounds

\* other lies beyond the named edge of a, at a gap in [0, tolerance], and the
\* projections of the two boxes on the other axis overlap.
TouchesOnSide(a, other, side, tolerance) ==
    LET gap == CASE side = "right" -> other.x - (a.x + a.width)
                 [] side = "left" -> a.x - (other.x + other.width)
                 [] side = "bottom" -> other.y - (a.y + a.height)
                 [] side = "top" -> a.y - (other.y + other.height)
        facing == IF side \in { "left", "right" }
                  THEN a.y < other.y + other.height /\ other.y < a.y + a.height
                  ELSE a.x < other.x + other.width /\ other.x < a.x + a.width
    IN 0 <= gap /\ gap <= tolerance /\ facing

\* C28: the side of every connection of a room r names the edge of r the
\* connected room lies beyond, at a gap in [0, tolerance], with overlapping
\* projections on the other axis.
C28_SideNamesTouchedEdge ==
    GraphBuilt =>
        \A r \in RoomIds(rooms) :
        \A k \in 1..Len(BuiltGraph[r]) :
           TouchesOnSide(FindRoom(rooms, r).bounds,
                         FindRoom(rooms, BuiltGraph[r][k].roomId).bounds,
                         BuiltGraph[r][k].side, Px(DefaultTolerance))

OppositeSide(side) ==
    CASE side = "left" -> "right"
      [] side = "right" -> "left"
      [] side = "top" -> "bottom"
      [] side = "bottom" -> "top"

\* The connections to room b in the list of room a.
ConnectionsTo(a, b) ==
    { k \in 1..Len(BuiltGraph[a]) : BuiltGraph[a][k].roomId = b }

\* C29: in the graph of buildConnectivityGraph room b is in the list of room a
\* exactly when a is in the list of b, once each, and the two connections name
\* opposite sides.
C29_GraphSymmetric ==
    GraphBuilt =>
        \A a, b \in RoomIds(rooms) :
            /\ Cardinality(ConnectionsTo(a, b)) = Cardinality(ConnectionsTo(b, a))
            /\ Cardinality(ConnectionsTo(a, b)) <= 1
            /\ \A k \in ConnectionsTo(a, b) :
               \A l \in ConnectionsTo(b, a) :
                  BuiltGraph[b][l].side = OppositeSide(BuiltGraph[a][k].side)

\* A graph of three rooms was built in which one room has two connections,
\* a second room one and the third room one.
C29_Witness ==
    /\ GraphBuilt
    /\ Len(rooms) = 3
    /\ \E a, b, c \in RoomIds(rooms) :
          /\ a # b /\ b # c /\ a # c
          /\ Len(BuiltGraph[a]) = 2
          /\ Len(BuiltGraph[b]) = 1
          /\ Len(BuiltGraph[c]) = 1
          /\ BuiltGraph[b][1].roomId = a
          /\ BuiltGraph[c][1].roomId = a

(***************************************************************************)
(* snapBoundsToGrid, applied to its own result                             *)
(***************************************************************************)
\* Boxes on and off the grids, narrower than MIN_ROOM_SIZE and wider.
SnapBoxes ==
    { Box(x, y, w, h) :
        x \in { 0, 3, 16, 25 }, y \in { 0, 7 },
        w \in { 5, 20, 24, 37 }, h \in { 5, 40 } }

\* Grids whose size divides MIN_ROOM_SIZE and grids whose size does not,
\* with snapping on and off.
SnapGrids ==
    { [size |-> s, snapEnabled |-> e] :
        s \in { 5, 8, 10, 12, 16, 20 }, e \in BOOLEAN }

SnapInit ==
    /\ helperCall = "snapBoundsToGrid"
    /\ helperArg \in SnapBoxes \X SnapGrids
    /\ helperResults = << >>
    /\ pc = "snapOnce"
    /\ NoSpring
    /\ NoFind
    /\ NoParse

\* snapBoundsToGrid(bounds, grid)
SnapOnce ==
    /\ pc = "snapOnce"
    /\ helperResults' = << snapBoundsToGrid(helperArg[1], helperArg[2]) >>
    /\ pc' = "snapAgain"
    /\ UNCHANGED << springCall, finderVars, parserVars, helperCall, helperArg >>

\* snapBoundsToGrid(snapBoundsToGrid(bounds, grid), grid)
SnapAgain ==
    /\ pc = "snapAgain"
    /\ helperResults' =
          Append(helperResults, snapBoundsToGrid(helperResults[1], helperArg[2]))
    /\ pc' = "snappedTwice"
    /\ UNCHANGED << springCall, finderVars, parserVars, helperCall, helperArg >>

SnapNext ==
    \/ SnapOnce
    \/ SnapAgain

SnapSpec == SnapInit /\ [][SnapNext]_vars

\* C30: snapBoundsToGrid applied to its own result returns that result.
C30_SnapIdempotent ==
    (pc = "snappedTwice") => helperResults[2] = helperResults[1]
====
